---------------------------- MODULE Spec2Model ----------------------------
(***************************************************************************)
(* A model of the session fabric of the earendil daemon:                   *)
(*   - the reply-block store          (daemon/reply_block_store.rs)        *)
(*   - the n2r-backed RPC transport   (global_rpc/transport.rs)            *)
(*   - the mux-backed RPC transport   (daemon/link_connection.rs)          *)
(*   - the haven socket               (socket/haven_socket.rs)             *)
(* Each component has its own specification (SpecRbs, SpecGrpc, SpecMux,   *)
(* SpecMuxFair, SpecHaven) over the shared variable tuple; a specification *)
(* leaves the other components' variables at their initial values.         *)
(***************************************************************************)
EXTENDS Integers, Sequences, FiniteSets, TLC

VARIABLES
    \* shared clock, in seconds (std::time::Instant)
    now,
    \* ReplyBlockStore
    items,          \* LruCache<Fingerprint, ReplyBlockDeque>, most recently used first
    rbNext,         \* the next reply block a caller creates
    rbGot,          \* what the last get returned
    \* GlobalRpcTransport::call_raw
    gPc, gReq, gRetries, gTimeout, gSentAt, gWhen, gSocket, gSent, gInbox, gResult,
    \* MultiplexRpcTransport
    pool,           \* conn_pool: ConcurrentQueue<(PooledConn, Instant)>
    stream,         \* the substreams of the multiplex
    nextConn,       \* the next substream mplex.open_conn opens
    callPc, callConn, callReq, callRes, callCount,
    \* HavenSocket
    sessions,       \* crypt_sessions: Cache<Endpoint, CryptSession>
    initFlight,     \* try_get_with: the thread computing the value of a key
    inbox,          \* datagrams waiting at the n2r socket
    recvPc,         \* recv_task: running, or returned with an error
    decrypted,      \* recv_incoming_decrypted
    sendPc, sendEp, sendEnc, sendRes,
    \* LinkProtocolImpl
    rgIdentities,   \* RELAY_GRAPH: the identity descriptors
    rgAdjacencies,  \* RELAY_GRAPH: the adjacency descriptors
    neighTable,     \* NEIGH_TABLE
    lpCall,         \* the last call of the link protocol and what it returned
    \* LinkConnection: the packet pump
    outgoing,       \* the channel send_outgoing / recv_outgoing
    incoming,       \* the channel send_incoming / recv_incoming
    urelIn,         \* per pump: the datagram recv_urel returns next
    wire,           \* the packets send_urel has transmitted, on whatever substream
    pumpPc,         \* per pump: handle_onion_packets runs, or returned with an error
    pkNext,         \* the next packet of the burst
    dgNext,         \* the next datagram of the peer
    loopPc,         \* connection_loop: accepting, matching a label, or died
    accLabel,       \* the label of the substream accept_conn returned
    ctlPc,          \* the handler of the accepted "n2n_control" substream
    ctlIn,          \* the line that handler reads next
    \* HavenSocket::bind: the registration task
    regPc,          \* where the task is: alloc, sleep3, publish, sleep5
    regElapsed,     \* seconds since the task came there
    allocReply,     \* what alloc_forward has to return, when R answered
    regLast,        \* what the last alloc_forward returned
    dht,            \* the locators the DHT holds
    \* LinkConnection::connect
    cnPc,           \* where connect is: idle, authenticate, verify, done
    cnTask,         \* the Immortal of connection_loop is alive
    cnPeerPk,       \* what mplex.peer_pk() returned
    cnResp,         \* the AuthResponse authenticate returned
    cnResult,       \* what connect returned
    \* ControlProtocolImpl: the socket map
    sockets,        \* DashMap<String, Socket>: the socket bound under each id, 0 for none
    shardOf,        \* the shard of the DashMap each id hashes to
    sktNext,        \* the sockets created so far
    cpPc,           \* per client: idle, bind_insert, send_wait, recv_wait
    cpId,           \* per client: the socket id of its call
    cpSkt,          \* per client: the socket its Ref points to, or the one it created
    cpRes,          \* per client: what its last call returned
    sentBy          \* the sockets a datagram was sent on

rbsVars   == <<items, rbNext, rbGot>>
grpcVars  == <<gPc, gReq, gRetries, gTimeout, gSentAt, gWhen, gSocket, gSent, gInbox, gResult>>
muxVars   == <<pool, stream, nextConn, callPc, callConn, callReq, callRes, callCount>>
havenVars == <<sessions, initFlight, inbox, recvPc, decrypted,
               sendPc, sendEp, sendEnc, sendRes>>
linkVars  == <<rgIdentities, rgAdjacencies, neighTable, lpCall>>
pumpVars  == <<outgoing, incoming, urelIn, wire, pumpPc, pkNext, dgNext,
               loopPc, accLabel, ctlPc, ctlIn>>
regVars   == <<regPc, regElapsed, allocReply, regLast, dht>>
cnVars    == <<cnPc, cnTask, cnPeerPk, cnResp, cnResult>>
cpVars    == <<sockets, shardOf, sktNext, cpPc, cpId, cpSkt, cpRes, sentBy>>
vars      == <<now, rbsVars, grpcVars, muxVars, havenVars, linkVars, pumpVars,
               regVars, cnVars, cpVars>>

\* Option<T>: None or Some(v)
None == <<>>

Some(v) == <<v>>

Last(s) == s[Len(s)]

Front(s) == SubSeq(s, 1, Len(s) - 1)

(***************************************************************************)
(* Reply-block store                                                       *)
(***************************************************************************)

\* the fingerprints callers use
NumFps == 3

\* ReplyBlockStore::new(size)
StoreSize == 2

\* the capacity ReplyBlockStore::insert gives a new deque: the source's 1000,
\* scaled down (the unit test of ReplyBlockDeque uses 3)
DequeCapacity == 3

\* the reply blocks created in one behaviour
MaxBlocks == 5

\* the longest Vec handed to insert_batch
MaxBatch == 2

Fingerprints == 1 .. NumFps

ReplyBlockDequeNew(capacity) == [deque |-> <<>>, capacity |-> capacity]

\* a plausible slip: the oldest element is not removed at capacity
DequeInsertNoEvict(d, item) == [d EXCEPT !.deque = Append(@, item)]

DequeInsert(d, item) ==
    LET popped == IF Len(d.deque) = d.capacity
                  THEN [d EXCEPT !.deque = IF @ = <<>> THEN @ ELSE Tail(@)]
                  ELSE d
    IN  [popped EXCEPT !.deque = Append(@, item)]

\* a plausible slip: pop_front, the oldest block first
DequePopFront(d) ==
    IF d.deque = <<>>
    THEN [left |-> d, out |-> None]
    ELSE [left |-> [d EXCEPT !.deque = Tail(@)], out |-> Some(Head(d.deque))]

\* a plausible slip: back() instead of pop_back(), the block stays
DequePeek(d) ==
    IF d.deque = <<>>
    THEN [left |-> d, out |-> None]
    ELSE [left |-> d, out |-> Some(Last(d.deque))]

\* pop_back: the deque left and the Option returned
DequePop(d) ==
    IF d.deque = <<>>
    THEN [left |-> d, out |-> None]
    ELSE [left |-> [d EXCEPT !.deque = Front(@)], out |-> Some(Last(d.deque))]

\* LruCache: a sequence of [key, val], the most recently used first
LruIndex(c, k) ==
    IF \E i \in 1 .. Len(c) : c[i].key = k
    THEN CHOOSE i \in 1 .. Len(c) : c[i].key = k
    ELSE 0

LruRemoveAt(c, i) == SubSeq(c, 1, i - 1) \o SubSeq(c, i + 1, Len(c))

\* get_mut's promotion of the entry at i
LruPromote(c, i) == <<c[i]>> \o LruRemoveAt(c, i)

\* a plausible slip: a full cache gives up its most recently used entry
LruPutEvictNewest(c, k, v, size) ==
    LET i == LruIndex(c, k)
    IN  IF i # 0 THEN <<[key |-> k, val |-> v]>> \o LruRemoveAt(c, i)
        ELSE IF Len(c) >= size THEN <<[key |-> k, val |-> v]>> \o Tail(c)
        ELSE <<[key |-> k, val |-> v]>> \o c

\* put: replaces and promotes a present key, else evicts the least recently
\* used entry of a full cache and adds the new one as the most recent
LruPut(c, k, v, size) ==
    LET i == LruIndex(c, k)
    IN  IF i # 0 THEN <<[key |-> k, val |-> v]>> \o LruRemoveAt(c, i)
        ELSE IF Len(c) >= size THEN <<[key |-> k, val |-> v]>> \o Front(c)
        ELSE <<[key |-> k, val |-> v]>> \o c

StoreInsert(c, fingerprint, rb) ==
    LET i == LruIndex(c, fingerprint)
    IN  IF i # 0
        THEN LET p == LruPromote(c, i)
             IN  [p EXCEPT ![1].val = DequeInsert(@, rb)]
        ELSE LruPut(c, fingerprint,
                    DequeInsert(ReplyBlockDequeNew(DequeCapacity), rb), StoreSize)

RECURSIVE StoreInsertBatch(_, _, _)
StoreInsertBatch(c, fingerprint, rbs) ==
    IF rbs = <<>> THEN c
    ELSE StoreInsertBatch(StoreInsert(c, fingerprint, Head(rbs)), fingerprint, Tail(rbs))

\* a plausible slip: a deque drained to empty is taken out of the cache
StoreGetDropEmpty(c, fingerprint) ==
    LET i == LruIndex(c, fingerprint)
    IN  IF i = 0 THEN [left |-> c, out |-> None]
        ELSE LET p == LruPromote(c, i)
                 r == DequePop(p[1].val)
             IN  [left |-> IF r.left.deque = <<>>
                           THEN Tail(p)
                           ELSE [p EXCEPT ![1].val = r.left],
                  out |-> r.out]

\* get: the store left and the Option returned
StoreGet(c, fingerprint) ==
    LET i == LruIndex(c, fingerprint)
    IN  IF i = 0 THEN [left |-> c, out |-> None]
        ELSE LET p == LruPromote(c, i)
                 r == DequePop(p[1].val)
             IN  [left |-> [p EXCEPT ![1].val = r.left], out |-> r.out]

\* the other components do not move
RbsFrame == UNCHANGED <<now, grpcVars, muxVars, havenVars, linkVars, pumpVars, regVars, cnVars, cpVars>>

RbsInit ==
    /\ items = <<>>
    /\ rbNext = 1
    /\ rbGot = [fp |-> None, out |-> None]

Insert(fp) ==
    /\ rbNext <= MaxBlocks
    /\ items' = StoreInsert(items, fp, rbNext)
    /\ rbNext' = rbNext + 1
    /\ UNCHANGED rbGot
    /\ RbsFrame

InsertBatch(fp, n) ==
    /\ rbNext + n - 1 <= MaxBlocks
    /\ items' = StoreInsertBatch(items, fp, [i \in 1 .. n |-> rbNext + i - 1])
    /\ rbNext' = rbNext + n
    /\ UNCHANGED rbGot
    /\ RbsFrame

Get(fp) ==
    /\ items' = StoreGet(items, fp).left
    /\ rbGot' = [fp |-> Some(fp), out |-> StoreGet(items, fp).out]
    /\ UNCHANGED rbNext
    /\ RbsFrame

RbsNext ==
    \/ \E fp \in Fingerprints : Insert(fp)
    \/ \E fp \in Fingerprints, n \in 0 .. MaxBatch : InsertBatch(fp, n)
    \/ \E fp \in Fingerprints : Get(fp)

(***************************************************************************)
(* N2R-backed RPC transport: GlobalRpcTransport::call_raw                  *)
(***************************************************************************)

\* the retries one call makes before the model stops it (the code has no cap)
MaxRetries == 4

\* the calls made on one transport in one behaviour
MaxGCalls == 1

\* the last second of the n2r transport's clock
GMaxTime == 32

\* self.dest_fp, and some other node
DestFp == "dest_fp"

OtherFp == "other_fp"

GEndpoint == [fp |-> DestFp, dock |-> "GLOBAL_RPC_DOCK"]

GRequests == [id : 1 .. 2, method : {"alloc_forward"}]

\* serde_json::to_string(&req)
SerializeReq(req) == [json |-> TRUE, kind |-> "request", id |-> req.id, method |-> req.method]

\* what the network can deliver to the socket: a JSON-RPC response carrying
\* some id, or bytes that are no JSON-RPC response
GBodies == [json : {TRUE}, kind : {"response"}, id : 1 .. 2]
           \cup {[json |-> FALSE, kind |-> "garbage", id |-> 0]}

GDatagrams == [from : {DestFp, OtherFp}, body : GBodies]

\* serde_json::from_str::<JrpcResponse>
ParseResponse(body) ==
    IF body.json /\ body.kind = "response" THEN Some([id |-> body.id]) ELSE None

\* a plausible slip: 2^retries, a first timeout of 1 s
RetryTimeoutOffByOne(retries) == 2 ^ retries

\* Duration::from_secs(2u64.pow(retries + 1)), in seconds; the u64 holds the
\* power for every retries <= MaxRetries (it overflows at retries = 63)
RetryTimeout(retries) == 2 ^ (retries + 1)

GNoResult == [kind |-> "none", why |-> "", resp |-> None]

\* the other components do not move
GrpcFrame == UNCHANGED <<rbsVars, muxVars, havenVars, linkVars, pumpVars, regVars, cnVars, cpVars>>

GrpcInit ==
    /\ gPc = "idle"
    /\ gReq = [id |-> 1, method |-> "alloc_forward"]
    /\ gRetries = 0
    /\ gTimeout = 0
    /\ gSentAt = 0
    /\ gWhen = 0
    /\ gSocket = 0
    /\ gSent = <<>>
    /\ gInbox = <<>>
    /\ gResult = GNoResult

\* lines 44-47: the call binds its socket and enters the loop
GCallRaw(req) ==
    /\ gPc \in {"idle", "done"}
    /\ gSocket < MaxGCalls
    /\ gPc' = "send"
    /\ gReq' = req
    /\ gSocket' = gSocket + 1
    /\ gRetries' = 0
    /\ gSent' = <<>>
    /\ gInbox' = <<>>
    /\ gResult' = GNoResult
    /\ gTimeout' = 0
    /\ gSentAt' = now
    /\ gWhen' = now
    /\ UNCHANGED now
    /\ GrpcFrame

\* lines 50-57: send, then arm the timer
GSend ==
    /\ gPc = "send"
    /\ gSent' = Append(gSent, [socket |-> gSocket, to |-> GEndpoint,
                               body |-> SerializeReq(gReq)])
    /\ gSentAt' = now
    /\ gTimeout' = RetryTimeout(gRetries)
    /\ gWhen' = now + RetryTimeout(gRetries)
    /\ gPc' = "wait"
    /\ UNCHANGED <<gReq, gRetries, gSocket, gInbox, gResult, now>>
    /\ GrpcFrame

\* lines 50-52: socket.send_to fails and the error is returned
GSendFail ==
    /\ gPc = "send"
    /\ gPc' = "done"
    /\ gResult' = [kind |-> "err", why |-> "send", resp |-> None]
    /\ UNCHANGED <<gReq, gRetries, gTimeout, gSentAt, gWhen, gSocket, gSent, gInbox, now>>
    /\ GrpcFrame

\* the network delivers a datagram to the socket's dock; the call returns on
\* the first datagram it receives, so only the first one is kept
GDeliver(dg) ==
    /\ gPc \in {"send", "wait"}
    /\ gInbox = <<>>
    /\ gInbox' = Append(gInbox, dg)
    /\ UNCHANGED <<gPc, gReq, gRetries, gTimeout, gSentAt, gWhen, gSocket, gSent, gResult, now>>
    /\ GrpcFrame

\* a plausible slip: a datagram of another sender or with another id is
\* thrown away and the call waits on
GRecvChecksSender ==
    /\ gPc = "wait"
    /\ gInbox # <<>>
    /\ LET parsed == ParseResponse(Head(gInbox).body)
           mine == /\ parsed # None
                   /\ Head(gInbox).from = DestFp
                   /\ parsed[1].id = gReq.id
       IN  /\ gResult' = IF mine THEN [kind |-> "ok", why |-> "", resp |-> parsed]
                         ELSE gResult
           /\ gPc' = IF mine THEN "done" ELSE "wait"
    /\ gInbox' = Tail(gInbox)
    /\ UNCHANGED <<gReq, gRetries, gTimeout, gSentAt, gWhen, gSocket, gSent, now>>
    /\ GrpcFrame

\* lines 59-66: recv_from wins the race; the datagram is parsed and returned
GRecv ==
    /\ gPc = "wait"
    /\ gInbox # <<>>
    /\ LET parsed == ParseResponse(Head(gInbox).body)
       IN  gResult' = IF parsed = None
                      THEN [kind |-> "err", why |-> "parse", resp |-> None]
                      ELSE [kind |-> "ok", why |-> "", resp |-> parsed]
    /\ gInbox' = Tail(gInbox)
    /\ gPc' = "done"
    /\ UNCHANGED <<gReq, gRetries, gTimeout, gSentAt, gWhen, gSocket, gSent, now>>
    /\ GrpcFrame

\* lines 67-69: recv_from returns an error
GRecvErr ==
    /\ gPc = "wait"
    /\ gInbox = <<>>
    /\ gResult' = [kind |-> "err", why |-> "recv", resp |-> None]
    /\ gPc' = "done"
    /\ UNCHANGED <<gReq, gRetries, gTimeout, gSentAt, gWhen, gSocket, gSent, gInbox, now>>
    /\ GrpcFrame

TimerDue == gPc = "wait" /\ gInbox = <<>> /\ now >= gWhen

\* a plausible slip: the call gives up at the second expiry of the timer
GTimerGivesUp ==
    /\ TimerDue
    /\ gRetries < MaxRetries
    /\ gRetries' = gRetries + 1
    /\ gPc' = IF gRetries >= 1 THEN "done" ELSE "send"
    /\ gResult' = IF gRetries >= 1
                  THEN [kind |-> "err", why |-> "timeout", resp |-> None]
                  ELSE gResult
    /\ UNCHANGED <<gReq, gTimeout, gSentAt, gWhen, gSocket, gSent, gInbox, now>>
    /\ GrpcFrame

\* lines 71-74: the timer wins the race
GTimer ==
    /\ TimerDue
    /\ gRetries < MaxRetries
    /\ gRetries' = gRetries + 1
    /\ gPc' = "send"
    /\ UNCHANGED <<gReq, gTimeout, gSentAt, gWhen, gSocket, gSent, gInbox, gResult, now>>
    /\ GrpcFrame

\* a second passes while the call waits in the select; a due timer fires
\* before the clock moves on
GTick ==
    /\ now < GMaxTime
    /\ gPc = "wait"
    /\ ~(TimerDue /\ gRetries < MaxRetries)
    /\ now' = now + 1
    /\ UNCHANGED grpcVars
    /\ GrpcFrame

GrpcNext ==
    \/ \E req \in GRequests : GCallRaw(req)
    \/ GSend
    \/ GSendFail
    \/ \E dg \in GDatagrams : GDeliver(dg)
    \/ GRecv
    \/ GRecvErr
    \/ GTimer
    \/ GTick

(***************************************************************************)
(* Mux-backed RPC transport: MultiplexRpcTransport                         *)
(***************************************************************************)

\* the calls made on the transport in one behaviour
MaxCalls == 3

\* the last second of the mux transport's clock
MuxMaxTime == 60

\* the clock moves in steps of half a POOL_TIMEOUT
MuxTickSteps == {30}

\* const POOL_TIMEOUT: Duration = Duration::from_secs(60)
POOL_TIMEOUT == 60

\* the two tasks that call call_raw on the one transport concurrently
Callers == 1 .. 2

Methods == {"info"}

\* serde_json::to_string(&req) + "\n": one line on the substream
RequestLine(req) == [json |-> TRUE, kind |-> "request", id |-> req.id, method |-> req.method]

\* service.respond_raw(req): the response carries the id of its request
RespondRaw(req) == [id |-> req.id, result |-> [of |-> req.method]]

\* serde_json::to_string(&resp) + "\n"
ResponseLine(resp) == [json |-> TRUE, kind |-> "response", id |-> resp.id, result |-> resp.result]

\* a line that is no JSON
GarbageLine == [json |-> FALSE, kind |-> "garbage"]

\* serde_json::from_str::<JrpcRequest>(&line)
ParseRequestLine(line) ==
    IF line.json /\ line.kind = "request"
    THEN Some([id |-> line.id, method |-> line.method])
    ELSE None

\* serde_json::from_str::<JrpcResponse>(&b)
ParseResponseLine(line) ==
    IF line.json /\ line.kind = "response"
    THEN Some([id |-> line.id, result |-> line.result])
    ELSE None

NewStream(label) == [label |-> label, state |-> "open", toPeer |-> <<>>, toClient |-> <<>>]

\* a plausible slip: an entry exactly POOL_TIMEOUT old is still reused
IsYoungInclusive(time) == now - time <= POOL_TIMEOUT

\* time.elapsed() < POOL_TIMEOUT
IsYoung(time) == now - time < POOL_TIMEOUT

\* a plausible slip: the entry is read but stays in the queue
PoolAfterPopKeep(p) == p

\* conn_pool.pop(): what is left of the queue
PoolAfterPop(p) == Tail(p)

\* conn_pool.push((v, Instant::now()))
PoolPush(p, conn) == Append(p, [conn |-> conn, time |-> now])

\* the scopeguard of call_raw: it runs whenever the guard is dropped, on every
\* way out of call_raw once get_conn has returned
GuardDrop(p, conn) == PoolPush(p, conn)

MuxNoResult == [kind |-> "none", why |-> "", resp |-> None]

MuxErr(why) == [kind |-> "err", why |-> why, resp |-> None]

\* the other components do not move
MuxFrame == UNCHANGED <<rbsVars, grpcVars, havenVars, linkVars, pumpVars, regVars, cnVars, cpVars>>

MuxInit ==
    /\ pool = <<>>
    /\ stream = <<>>
    /\ nextConn = 1
    /\ callPc = [c \in Callers |-> "idle"]
    /\ callConn = [c \in Callers |-> 0]
    /\ callReq = [c \in Callers |-> [id |-> 0, method |-> "info"]]
    /\ callRes = [c \in Callers |-> MuxNoResult]
    /\ callCount = 0

\* call_raw is entered with a request of its own id
CallRaw(c, method) ==
    /\ callPc[c] = "idle"
    /\ callCount < MaxCalls
    /\ callCount' = callCount + 1
    /\ callReq' = [callReq EXCEPT ![c] = [id |-> callCount + 1, method |-> method]]
    /\ callRes' = [callRes EXCEPT ![c] = MuxNoResult]
    /\ callPc' = [callPc EXCEPT ![c] = "get_conn"]
    /\ UNCHANGED <<pool, stream, nextConn, callConn, now>>
    /\ MuxFrame

\* get_conn, one turn of the while loop: an entry is popped and either handed
\* out or dropped
GetConnPop(c) ==
    /\ callPc[c] = "get_conn"
    /\ pool # <<>>
    /\ pool' = PoolAfterPop(pool)
    /\ IF IsYoung(Head(pool).time)
       THEN /\ callConn' = [callConn EXCEPT ![c] = Head(pool).conn]
            /\ callPc' = [callPc EXCEPT ![c] = "write"]
            /\ UNCHANGED stream
       ELSE /\ stream' = [stream EXCEPT ![Head(pool).conn].state = "dropped"]
            /\ UNCHANGED <<callConn, callPc>>
    /\ UNCHANGED <<nextConn, callReq, callRes, callCount, now>>
    /\ MuxFrame

\* get_conn: pop() finds the queue empty and the loop ends
GetConnEmpty(c) ==
    /\ callPc[c] = "get_conn"
    /\ pool = <<>>
    /\ callPc' = [callPc EXCEPT ![c] = "open"]
    /\ UNCHANGED <<pool, stream, nextConn, callConn, callReq, callRes, callCount, now>>
    /\ MuxFrame

\* get_conn: mplex.open_conn("n2n_control") returns a new substream
OpenConn(c) ==
    /\ callPc[c] = "open"
    /\ stream' = Append(stream, NewStream("n2n_control"))
    /\ nextConn' = nextConn + 1
    /\ callConn' = [callConn EXCEPT ![c] = nextConn]
    /\ callPc' = [callPc EXCEPT ![c] = "write"]
    /\ UNCHANGED <<pool, callReq, callRes, callCount, now>>
    /\ MuxFrame

\* get_conn: open_conn fails; call_raw returns before the guard exists
OpenConnFail(c) ==
    /\ callPc[c] = "open"
    /\ callRes' = [callRes EXCEPT ![c] = MuxErr("open")]
    /\ callPc' = [callPc EXCEPT ![c] = "idle"]
    /\ UNCHANGED <<pool, stream, nextConn, callConn, callReq, callCount, now>>
    /\ MuxFrame

\* call_raw: the request line is written
Write(c) ==
    /\ callPc[c] = "write"
    /\ stream[callConn[c]].state = "open"
    /\ stream' = [stream EXCEPT ![callConn[c]].toPeer = Append(@, RequestLine(callReq[c]))]
    /\ callPc' = [callPc EXCEPT ![c] = "read"]
    /\ UNCHANGED <<pool, nextConn, callConn, callReq, callRes, callCount, now>>
    /\ MuxFrame

\* call_raw: the substream is reset and write_all fails; the `?` returns and
\* drops the guard
WriteFail(c) ==
    /\ callPc[c] = "write"
    /\ stream' = [stream EXCEPT ![callConn[c]].state = "broken"]
    /\ callRes' = [callRes EXCEPT ![c] = MuxErr("write")]
    /\ pool' = GuardDrop(pool, callConn[c])
    /\ callConn' = [callConn EXCEPT ![c] = 0]
    /\ callPc' = [callPc EXCEPT ![c] = "idle"]
    /\ UNCHANGED <<nextConn, callReq, callCount, now>>
    /\ MuxFrame

\* call_raw: a line is read and parsed; the guard is dropped on return,
\* whether the parse succeeded or the `?` returned its error
ReadLine(c) ==
    /\ callPc[c] = "read"
    /\ stream[callConn[c]].toClient # <<>>
    /\ LET parsed == ParseResponseLine(Head(stream[callConn[c]].toClient))
       IN  callRes' = [callRes EXCEPT ![c] =
                         IF parsed = None THEN MuxErr("parse")
                         ELSE [kind |-> "ok", why |-> "", resp |-> parsed]]
    /\ stream' = [stream EXCEPT ![callConn[c]].toClient = Tail(@)]
    /\ pool' = GuardDrop(pool, callConn[c])
    /\ callConn' = [callConn EXCEPT ![c] = 0]
    /\ callPc' = [callPc EXCEPT ![c] = "idle"]
    /\ UNCHANGED <<nextConn, callReq, callCount, now>>
    /\ MuxFrame

\* call_raw: the substream is reset (or was) and read_line, its buffer empty,
\* fails; the `?` returns and drops the guard
ReadFail(c) ==
    /\ callPc[c] = "read"
    /\ stream[callConn[c]].toClient = <<>>
    /\ stream' = [stream EXCEPT ![callConn[c]].state = "broken"]
    /\ callRes' = [callRes EXCEPT ![c] = MuxErr("read")]
    /\ pool' = GuardDrop(pool, callConn[c])
    /\ callConn' = [callConn EXCEPT ![c] = 0]
    /\ callPc' = [callPc EXCEPT ![c] = "idle"]
    /\ UNCHANGED <<nextConn, callReq, callCount, now>>
    /\ MuxFrame

\* the caller drops the call_raw future at one of its awaits; a guard that
\* exists is dropped with it
Cancel(c) ==
    /\ callPc[c] \in {"open", "write", "read"}
    /\ callRes' = [callRes EXCEPT ![c] = [kind |-> "cancelled", why |-> callPc[c], resp |-> None]]
    /\ pool' = IF callPc[c] = "open" THEN pool ELSE GuardDrop(pool, callConn[c])
    /\ callConn' = [callConn EXCEPT ![c] = 0]
    /\ callPc' = [callPc EXCEPT ![c] = "idle"]
    /\ UNCHANGED <<stream, nextConn, callReq, callCount, now>>
    /\ MuxFrame

\* the peer's connection_loop, "n2n_control" arm: a line is read, answered
\* by the service, and the response line written on the same substream
PeerServe(id) ==
    /\ stream[id].label = "n2n_control"
    /\ stream[id].state = "open"
    /\ stream[id].toPeer # <<>>
    /\ ParseRequestLine(Head(stream[id].toPeer)) # None
    /\ stream' = [stream EXCEPT
                    ![id].toPeer = Tail(@),
                    ![id].toClient = Append(@,
                        ResponseLine(RespondRaw(ParseRequestLine(Head(stream[id].toPeer))[1])))]
    /\ UNCHANGED <<pool, nextConn, callPc, callConn, callReq, callRes, callCount, now>>
    /\ MuxFrame

\* a peer that does not follow the protocol answers with a line that is no
\* JSON-RPC response
PeerGarbage(id) ==
    /\ stream[id].state = "open"
    /\ stream[id].toPeer # <<>>
    /\ stream' = [stream EXCEPT ![id].toPeer = Tail(@),
                                ![id].toClient = Append(@, GarbageLine)]
    /\ UNCHANGED <<pool, nextConn, callPc, callConn, callReq, callRes, callCount, now>>
    /\ MuxFrame

MuxTick(d) ==
    /\ now + d <= MuxMaxTime
    /\ now' = now + d
    /\ UNCHANGED muxVars
    /\ MuxFrame

StreamIds == 1 .. Len(stream)

\* the transport with a peer that follows the protocol, no transport
\* failure and no cancelled call
MuxNextOk ==
    \/ \E c \in Callers, m \in Methods : CallRaw(c, m)
    \/ \E c \in Callers : GetConnPop(c)
    \/ \E c \in Callers : GetConnEmpty(c)
    \/ \E c \in Callers : OpenConn(c)
    \/ \E c \in Callers : Write(c)
    \/ \E c \in Callers : ReadLine(c)
    \/ \E id \in StreamIds : PeerServe(id)
    \/ \E d \in MuxTickSteps : MuxTick(d)

MuxNext ==
    \/ MuxNextOk
    \/ \E c \in Callers : OpenConnFail(c)
    \/ \E c \in Callers : WriteFail(c)
    \/ \E c \in Callers : ReadFail(c)
    \/ \E c \in Callers : Cancel(c)
    \/ \E id \in StreamIds : PeerGarbage(id)

\* a caller's own steps, and the peer's: the executor runs every ready task
CallerStep(c) ==
    GetConnPop(c) \/ GetConnEmpty(c) \/ OpenConn(c) \/ Write(c) \/ ReadLine(c)

MuxFairness ==
    /\ \A c \in Callers : WF_vars(CallerStep(c))
    /\ \A id \in 1 .. MaxCalls : WF_vars(id \in StreamIds /\ PeerServe(id))

(***************************************************************************)
(* Haven socket                                                            *)
(***************************************************************************)

\* time passes in steps of half a time_to_live
HavenTickSteps == {900}

\* .time_to_live(Duration::from_secs(60 * 30))
SESSION_TTL == 1800

Endpoints == {"E1", "E2"}

\* the endpoints datagrams arrive from; send_to sends to every endpoint
Remotes == {"E1"}

\* the two tasks that call send_to concurrently
Senders == 1 .. 2

Handshakes == {"hsA"}

\* HavenMsg, and bytes that do not deserialize
HavenMsgs ==
    [kind : {"ClientHs"}, hs : Handshakes]
    \cup {[kind |-> "ServerHs", hs |-> "hsA"],
          [kind |-> "Regular", hs |-> "none"]}

Malformed == [kind |-> "Malformed", hs |-> "none"]

NoSession == [id |-> 0, hs |-> "none", age |-> 0]

\* CryptSession::new(.., client_info): the session it returns when it succeeds;
\* client_info is the handshake of a received ClientHs, or "none"; age is the
\* time the session has spent in the cache
CryptSessionNew(id, client_info) == [id |-> id, hs |-> client_info, age |-> 0]

\* Cache::get: an entry past its time_to_live is not returned
CacheGet(c, ep) == c[ep]

Live(c, ep) == CacheGet(c, ep).id # 0

\* a plausible slip: an entry that exists is kept (entry().or_insert)
CacheInsertIfAbsent(c, ep, sess) == IF c[ep].id # 0 THEN c ELSE [c EXCEPT ![ep] = sess]

\* Cache::insert: replaces the entry of the key
CacheInsert(c, ep, sess) == [c EXCEPT ![ep] = sess]

\* a plausible slip: the failed session stays cached
CacheRemoveNothing(c, ep) == c

\* a plausible slip: invalidate_all() instead of remove(&endpoint)
CacheRemoveAll(c, ep) == [e \in Endpoints |-> NoSession]

\* Cache::remove(&endpoint)
CacheRemove(c, ep) == [c EXCEPT ![ep] = NoSession]

\* time_to_live: the cache after d more seconds
CacheExpire(c, d) ==
    [e \in Endpoints |->
        IF c[e].id = 0 \/ c[e].age + d >= SESSION_TTL
        THEN NoSession
        ELSE [c[e] EXCEPT !.age = @ + d]]

\* a plausible slip: every caller that misses computes the value itself
FlightOfNone(flight, ep) == 0

\* try_get_with: the thread that is computing the value of the key, if any
FlightOf(flight, ep) == flight[ep]

HavenNoResult == [kind |-> "none", why |-> ""]

HavenOk == [kind |-> "Ok", why |-> ""]

\* SocketSendError::HavenEncryptionError(e.to_string())
HavenEncryptionError(why) == [kind |-> "HavenEncryptionError", why |-> why]

\* the sessions made for an endpoint that exist: the cached one and the ones
\* a send_to holds
SessionsInUse(ep) ==
    {sessions[ep].id} \cup {sendEnc[t] : t \in {u \in Senders : sendEp[u] = ep}}

SessionIds == 1 .. (Cardinality(Senders) + 2)

\* Arc::new: the identity of a session that is created now for the endpoint,
\* different from every one that exists
NewSessionId(ep) == CHOOSE i \in SessionIds \ SessionsInUse(ep) :
                        \A j \in SessionIds \ SessionsInUse(ep) : i <= j

\* the other components do not move
HavenFrame == UNCHANGED <<rbsVars, grpcVars, muxVars, linkVars, pumpVars, regVars, cnVars, cpVars>>

HavenInit ==
    /\ sessions = [e \in Endpoints |-> NoSession]
    /\ initFlight = [e \in Endpoints |-> 0]
    /\ inbox = <<>>
    /\ recvPc = "running"
    /\ decrypted = <<>>
    /\ sendPc = [t \in Senders |-> "idle"]
    /\ sendEp = [t \in Senders |-> "E1"]
    /\ sendEnc = [t \in Senders |-> 0]
    /\ sendRes = [t \in Senders |-> HavenNoResult]

\* send_to, lines 140-153: try_get_with returns the cached session, or waits
\* for the thread that is computing it, or starts computing it
SendTo(t, ep) ==
    /\ sendPc[t] = "idle"
    /\ sendEp' = [sendEp EXCEPT ![t] = ep]
    /\ sendRes' = [sendRes EXCEPT ![t] = HavenNoResult]
    /\ IF Live(sessions, ep)
       THEN /\ sendEnc' = [sendEnc EXCEPT ![t] = CacheGet(sessions, ep).id]
            /\ sendPc' = [sendPc EXCEPT ![t] = "send_outgoing"]
            /\ UNCHANGED initFlight
       ELSE IF FlightOf(initFlight, ep) # 0
       THEN /\ sendPc' = [sendPc EXCEPT ![t] = "wait_init"]
            /\ sendEnc' = [sendEnc EXCEPT ![t] = 0]
            /\ UNCHANGED initFlight
       ELSE /\ sendPc' = [sendPc EXCEPT ![t] = "init"]
            /\ sendEnc' = [sendEnc EXCEPT ![t] = 0]
            /\ initFlight' = [initFlight EXCEPT ![ep] = t]
    /\ UNCHANGED <<sessions, inbox, recvPc, decrypted, now>>
    /\ HavenFrame

\* the threads try_get_with holds back until t's computation for its key ends
Waiters(t) == {u \in Senders : sendPc[u] = "wait_init" /\ sendEp[u] = sendEp[t]}

\* try_get_with: CryptSession::new succeeded; the session is inserted and
\* handed to the computing thread and to every thread waiting for it
InitOk(t) ==
    /\ sendPc[t] = "init"
    /\ sessions' = CacheInsert(sessions, sendEp[t], CryptSessionNew(NewSessionId(sendEp[t]), "none"))
    /\ initFlight' = [initFlight EXCEPT ![sendEp[t]] = 0]
    /\ sendEnc' = [u \in Senders |-> IF u \in Waiters(t) \cup {t} THEN NewSessionId(sendEp[t]) ELSE sendEnc[u]]
    /\ sendPc' = [u \in Senders |->
                    IF u \in Waiters(t) \cup {t} THEN "send_outgoing" ELSE sendPc[u]]
    /\ UNCHANGED <<inbox, recvPc, decrypted, sendEp, sendRes, now>>
    /\ HavenFrame

\* try_get_with: CryptSession::new failed; nothing is inserted and the error
\* goes to the computing thread and to every thread waiting for it (line 153)
InitFail(t) ==
    /\ sendPc[t] = "init"
    /\ initFlight' = [initFlight EXCEPT ![sendEp[t]] = 0]
    /\ sendRes' = [u \in Senders |->
                     IF u \in Waiters(t) \cup {t}
                     THEN HavenEncryptionError("new") ELSE sendRes[u]]
    /\ sendPc' = [u \in Senders |-> IF u \in Waiters(t) \cup {t} THEN "idle" ELSE sendPc[u]]
    /\ UNCHANGED <<sessions, inbox, recvPc, decrypted, sendEp, sendEnc,
                   now>>
    /\ HavenFrame

\* line 154, 157-158: enc.send_outgoing(body) succeeded
SendOutgoingOk(t) ==
    /\ sendPc[t] = "send_outgoing"
    /\ sendRes' = [sendRes EXCEPT ![t] = HavenOk]
    /\ sendPc' = [sendPc EXCEPT ![t] = "idle"]
    /\ sendEnc' = [sendEnc EXCEPT ![t] = 0]
    /\ UNCHANGED <<sessions, initFlight, inbox, recvPc, decrypted, sendEp,
                   now>>
    /\ HavenFrame

\* line 154: enc.send_outgoing(body) failed
SendOutgoingFail(t) ==
    /\ sendPc[t] = "send_outgoing"
    /\ sendPc' = [sendPc EXCEPT ![t] = "evict"]
    /\ UNCHANGED <<sessions, initFlight, inbox, recvPc, decrypted, sendEp,
                   sendEnc, sendRes, now>>
    /\ HavenFrame

\* lines 155-156: the entry of the endpoint is removed and the error returned
Evict(t) ==
    /\ sendPc[t] = "evict"
    /\ sessions' = CacheRemove(sessions, sendEp[t])
    /\ sendRes' = [sendRes EXCEPT ![t] = HavenEncryptionError("send_outgoing")]
    /\ sendPc' = [sendPc EXCEPT ![t] = "idle"]
    /\ sendEnc' = [sendEnc EXCEPT ![t] = 0]
    /\ UNCHANGED <<initFlight, inbox, recvPc, decrypted, sendEp,
                   now>>
    /\ HavenFrame

\* a datagram arrives at the n2r socket; inbox is the datagram that
\* n2r_skt.recv_from() returns next, the ones behind it arrive after it is taken
Arrive(remote, msg) ==
    /\ inbox = <<>>
    /\ inbox' = Append(inbox, [remote |-> remote, msg |-> msg])
    /\ UNCHANGED <<sessions, initFlight, recvPc, decrypted, sendPc, sendEp,
                   sendEnc, sendRes, now>>
    /\ HavenFrame

\* what a session does with a message sent into its incoming channel: it
\* decrypts a Regular and sends it to recv_incoming_decrypted (the clone of
\* send_incoming_decrypted it was created with)
SessionDeliver(chan, ep, kind) ==
    IF kind = "Regular" THEN Append(chan, [from |-> ep]) ELSE chan

\* recv_task has a datagram to take
RecvReady == recvPc = "running" /\ inbox # <<>>

RecvFrame == UNCHANGED <<initFlight, sendPc, sendEp, sendEnc, sendRes, now>>

\* recv_task, lines 184-186: a datagram that does not deserialize; the `?`
\* returns the error
RecvMalformed ==
    /\ RecvReady
    /\ Head(inbox).msg.kind = "Malformed"
    /\ inbox' = Tail(inbox)
    /\ recvPc' = "dead"
    /\ UNCHANGED <<sessions, decrypted>>
    /\ RecvFrame
    /\ HavenFrame

\* recv_task, lines 194-205: a ClientHs; the new session replaces the entry
RecvClientHs ==
    /\ RecvReady
    /\ Head(inbox).msg.kind = "ClientHs"
    /\ inbox' = Tail(inbox)
    /\ sessions' = CacheInsert(sessions, Head(inbox).remote,
                               CryptSessionNew(NewSessionId(Head(inbox).remote),
                                               Head(inbox).msg.hs))
    /\ UNCHANGED <<recvPc, decrypted>>
    /\ RecvFrame
    /\ HavenFrame

\* recv_task, line 204: CryptSession::new fails on a ClientHs; the `?`
\* returns the error before insert is called
RecvClientHsFail ==
    /\ RecvReady
    /\ Head(inbox).msg.kind = "ClientHs"
    /\ inbox' = Tail(inbox)
    /\ recvPc' = "dead"
    /\ UNCHANGED <<sessions, decrypted>>
    /\ RecvFrame
    /\ HavenFrame

\* recv_task, lines 190-191, 206-207: a ServerHs or Regular for a cached
\* session is sent into that session; the session decrypts a Regular and sends
\* it to recv_incoming_decrypted, which has room for one message here
RecvForward ==
    /\ RecvReady
    /\ Head(inbox).msg.kind \in {"ServerHs", "Regular"}
    /\ Live(sessions, Head(inbox).remote)
    /\ inbox' = Tail(inbox)
    /\ decrypted = <<>>
    /\ decrypted' = SessionDeliver(decrypted, Head(inbox).remote, Head(inbox).msg.kind)
    /\ UNCHANGED <<sessions, recvPc>>
    /\ RecvFrame
    /\ HavenFrame

\* recv_task, lines 191, 207: send_incoming fails; the `?` returns the error
RecvForwardFail ==
    /\ RecvReady
    /\ Head(inbox).msg.kind \in {"ServerHs", "Regular"}
    /\ Live(sessions, Head(inbox).remote)
    /\ inbox' = Tail(inbox)
    /\ recvPc' = "dead"
    /\ UNCHANGED <<sessions, decrypted>>
    /\ RecvFrame
    /\ HavenFrame

\* recv_task, lines 192, 208: no session for the sender; bail!("stray msg")
RecvStray ==
    /\ RecvReady
    /\ Head(inbox).msg.kind \in {"ServerHs", "Regular"}
    /\ ~Live(sessions, Head(inbox).remote)
    /\ inbox' = Tail(inbox)
    /\ recvPc' = "dead"
    /\ UNCHANGED <<sessions, decrypted>>
    /\ RecvFrame
    /\ HavenFrame

\* a plausible slip: the task is spawned once and stays dead after an error
RespawnNever ==
    /\ recvPc = "dead"
    /\ UNCHANGED vars

\* bind, lines 54-69: Immortal::respawn(RespawnStrategy::Immediate, ..) starts
\* recv_task again after it returned
Respawn ==
    /\ recvPc = "dead"
    /\ recvPc' = "running"
    /\ UNCHANGED <<sessions, initFlight, inbox, decrypted, sendPc, sendEp,
                   sendEnc, sendRes, now>>
    /\ HavenFrame

\* recv_from, lines 162-168
RecvFrom ==
    /\ decrypted # <<>>
    /\ decrypted' = Tail(decrypted)
    /\ UNCHANGED <<sessions, initFlight, inbox, recvPc, sendPc, sendEp, sendEnc,
                   sendRes, now>>
    /\ HavenFrame

\* time passes; the cache no longer holds the entries whose time_to_live ended
HavenTick(d) ==
    /\ sessions' = CacheExpire(sessions, d)
    /\ sessions' # sessions
    /\ UNCHANGED <<initFlight, inbox, recvPc, decrypted, sendPc, sendEp, sendEnc, sendRes, now>>
    /\ HavenFrame

HavenNext ==
    \/ \E t \in Senders, ep \in Endpoints : SendTo(t, ep)
    \/ \E t \in Senders : InitOk(t)
    \/ \E t \in Senders : InitFail(t)
    \/ \E t \in Senders : SendOutgoingOk(t)
    \/ \E t \in Senders : SendOutgoingFail(t)
    \/ \E t \in Senders : Evict(t)
    \/ \E remote \in Remotes, msg \in HavenMsgs : Arrive(remote, msg)
    \/ Arrive("E1", Malformed)
    \/ RecvMalformed
    \/ RecvClientHs
    \/ RecvClientHsFail
    \/ RecvForward
    \/ RecvForwardFail
    \/ RecvStray
    \/ Respawn
    \/ RecvFrom
    \/ \E d \in HavenTickSteps : HavenTick(d)

(***************************************************************************)
(* Link protocol service: sign_adjacency and adjacencies                   *)
(***************************************************************************)

\* the longest list handed to adjacencies
MaxFpsLen == 3

\* the fingerprints of the nodes, in their total order
NodeFps == {"fpA", "fpB", "fpC"}

\* Fingerprint: Ord
FpRank(fp) == CASE fp = "fpA" -> 1 [] fp = "fpB" -> 2 [] fp = "fpC" -> 3

FpLess(a, b) == FpRank(a) < FpRank(b)

\* ctx.get(GLOBAL_IDENTITY).public().fingerprint(): this node lies between
\* a node to its left and a node to its right
MyFingerprint == "fpB"

\* a signature names its signer and the bytes signed; NoSig verifies under no key
NoSig == [by |-> "nobody", over |-> <<>>]

Sign(fp, bytes) == [by |-> fp, over |-> bytes]

\* AdjacencyDescriptor::to_sign: the descriptor without its signatures
ToSign(d) == <<d.left, d.right>>

Verifies(sig, fp, bytes) == sig = Sign(fp, bytes)

\* the descriptors a peer may hand to sign_adjacency: any two fingerprints,
\* a left signature that verifies or not, the right signature still missing
IncompleteDescriptors ==
    UNION {{[left |-> l, right |-> r, left_sig |-> Sign(l, <<l, r>>), right_sig |-> NoSig],
            [left |-> l, right |-> r, left_sig |-> NoSig, right_sig |-> NoSig]} :
              l \in NodeFps, r \in NodeFps}

\* the fully signed descriptor of an edge
SignedDescriptor(l, r) ==
    [left |-> l, right |-> r, left_sig |-> Sign(l, <<l, r>>), right_sig |-> Sign(r, <<l, r>>)]

\* RelayGraph::identity(fp): "none" when the graph has no descriptor
Identity(ids, fp) == ids[fp]

IsRelay(ids, fp) == Identity(ids, fp) = "relay"

\* RelayGraph::insert_adjacency accepts a descriptor with left < right that is
\* not in the graph and whose signatures verify under the identities the
\* graph knows for its two sides
InsertAdjacencyOk(ids, adjs, d) ==
    /\ FpLess(d.left, d.right)
    /\ d \notin adjs
    /\ Identity(ids, d.left) # "none"
    /\ Identity(ids, d.right) # "none"
    /\ Verifies(d.left_sig, d.left, ToSign(d))
    /\ Verifies(d.right_sig, d.right, ToSign(d))

\* a plausible slip: the neighbor table is not asked
SignValidNoNeighbor(d, neigh) ==
    /\ FpLess(d.left, d.right)
    /\ d.right = MyFingerprint

\* sign_adjacency, lines 262-268
SignValid(d, neigh) ==
    /\ FpLess(d.left, d.right)
    /\ d.right = MyFingerprint
    /\ d.left \in neigh

\* every pair of fingerprints, ascending
NodePairs == <<<<"fpA", "fpB">>, <<"fpA", "fpC">>, <<"fpB", "fpC">>>>

Reverse(s) == [i \in 1 .. Len(s) |-> s[Len(s) + 1 - i]]

\* RelayGraph::adjacencies(fp): the descriptors with fp on one side, in the
\* order the graph keeps them (ascending or descending by their sides)
GraphAdjacencies(adjs, fp, order) ==
    LET pairs == IF order = "asc" THEN NodePairs ELSE Reverse(NodePairs)
        f[i \in 0 .. Len(pairs)] ==
            IF i = 0 THEN <<>>
            ELSE LET here == {d \in adjs : <<d.left, d.right>> = pairs[i]
                                             /\ (d.left = fp \/ d.right = fp)}
                 IN  IF here = {} THEN f[i - 1]
                     ELSE Append(f[i - 1], CHOOSE d \in here : TRUE)
    IN  f[Len(pairs)]

\* a plausible slip: only the left side is asked to be a relay
RelayToRelayLeftOnly(ids, adj) == IsRelay(ids, adj.left)

\* adjacencies, lines 300-303: the filter
RelayToRelay(ids, adj) == IsRelay(ids, adj.left) /\ IsRelay(ids, adj.right)

FilterSeq(s, ids) ==
    LET f[i \in 0 .. Len(s)] ==
            IF i = 0 THEN <<>>
            ELSE IF RelayToRelay(ids, s[i]) THEN Append(f[i - 1], s[i]) ELSE f[i - 1]
    IN  f[Len(s)]

\* flat_map over fps
FlatMap(fps, ids, adjs, order) ==
    LET f[i \in 0 .. Len(fps)] ==
            IF i = 0 THEN <<>>
            ELSE f[i - 1] \o FilterSeq(GraphAdjacencies(adjs, fps[i], order), ids)
    IN  f[Len(fps)]

\* Itertools::dedup: of a run of equal consecutive elements one is kept
Dedup(s) ==
    LET f[i \in 0 .. Len(s)] ==
            IF i = 0 THEN <<>>
            ELSE IF i > 1 /\ s[i] = s[i - 1] THEN f[i - 1] ELSE Append(f[i - 1], s[i])
    IN  f[Len(s)]

\* adjacencies, lines 296-307
Adjacencies(fps, ids, adjs, order) == Dedup(FlatMap(fps, ids, adjs, order))

\* the lists of fingerprints a peer may ask about
FpLists == UNION {[1 .. n -> NodeFps] : n \in 0 .. MaxFpsLen}

NoCall == [op |-> "none"]

\* the other components do not move
LinkFrame == UNCHANGED <<now, rbsVars, grpcVars, muxVars, havenVars, pumpVars, regVars, cnVars, cpVars>>

LinkInit ==
    /\ rgIdentities = [fp \in NodeFps |-> IF fp = MyFingerprint THEN "relay" ELSE "none"]
    /\ rgAdjacencies = {}
    /\ neighTable = {}
    /\ lpCall = NoCall

\* RelayGraph::insert_identity, by gossip: a node becomes known as relay or not
InsertIdentity(fp, kind) ==
    /\ lpCall = NoCall
    /\ rgIdentities[fp] = "none"
    /\ rgIdentities' = [rgIdentities EXCEPT ![fp] = kind]
    /\ UNCHANGED <<rgAdjacencies, neighTable, lpCall>>
    /\ LinkFrame

\* a link to the node comes up: NEIGH_TABLE gets it
NeighInsert(fp) ==
    /\ lpCall = NoCall
    /\ fp # MyFingerprint
    /\ fp \notin neighTable
    /\ neighTable' = neighTable \cup {fp}
    /\ UNCHANGED <<rgIdentities, rgAdjacencies, lpCall>>
    /\ LinkFrame

\* the link goes away
NeighRemove(fp) ==
    /\ lpCall = NoCall
    /\ fp \in neighTable
    /\ neighTable' = neighTable \ {fp}
    /\ UNCHANGED <<rgIdentities, rgAdjacencies, lpCall>>
    /\ LinkFrame

\* gossip brings an adjacency two other parties signed
GossipAdjacency(l, r) ==
    /\ lpCall = NoCall
    /\ r # MyFingerprint
    /\ InsertAdjacencyOk(rgIdentities, rgAdjacencies, SignedDescriptor(l, r))
    /\ rgAdjacencies' = rgAdjacencies \cup {SignedDescriptor(l, r)}
    /\ UNCHANGED <<rgIdentities, neighTable, lpCall>>
    /\ LinkFrame

\* sign_adjacency, lines 257-290
SignAdjacency(left_incomplete) ==
    LET completed == [left_incomplete EXCEPT
                         !.right_sig = Sign(MyFingerprint, ToSign(left_incomplete))]
    IN  /\ lpCall = NoCall
        /\ IF ~SignValid(left_incomplete, neighTable)
           THEN /\ lpCall' = [op |-> "sign_adjacency", arg |-> left_incomplete, ret |-> None]
                /\ UNCHANGED rgAdjacencies
           ELSE IF ~InsertAdjacencyOk(rgIdentities, rgAdjacencies, completed)
           THEN /\ lpCall' = [op |-> "sign_adjacency", arg |-> left_incomplete, ret |-> None]
                /\ UNCHANGED rgAdjacencies
           ELSE /\ lpCall' = [op |-> "sign_adjacency", arg |-> left_incomplete,
                              ret |-> Some(completed)]
                /\ rgAdjacencies' = rgAdjacencies \cup {completed}
        /\ UNCHANGED <<rgIdentities, neighTable>>
        /\ LinkFrame

\* adjacencies, lines 296-307
AdjacenciesCall(fps, order) ==
    /\ lpCall = NoCall
    /\ lpCall' = [op |-> "adjacencies", arg |-> fps,
                  ret |-> Adjacencies(fps, rgIdentities, rgAdjacencies, order)]
    /\ UNCHANGED <<rgIdentities, rgAdjacencies, neighTable>>
    /\ LinkFrame

\* the RPC service sends the result to the peer; the next request is served
LpRespond ==
    /\ lpCall # NoCall
    /\ lpCall' = NoCall
    /\ UNCHANGED <<rgIdentities, rgAdjacencies, neighTable>>
    /\ LinkFrame

LinkNext ==
    \/ \E fp \in NodeFps, kind \in {"relay", "client"} : InsertIdentity(fp, kind)
    \/ \E fp \in NodeFps : NeighInsert(fp)
    \/ \E fp \in NodeFps : NeighRemove(fp)
    \/ \E l \in NodeFps, r \in NodeFps : GossipAdjacency(l, r)
    \/ \E d \in IncompleteDescriptors : SignAdjacency(d)
    \/ \E fps \in FpLists, order \in {"asc", "desc"} : AdjacenciesCall(fps, order)
    \/ LpRespond

(***************************************************************************)
(* Link connection: raw packets and the packet pump                        *)
(***************************************************************************)

\* smol::channel::bounded(100), scaled down
ChannelCapacity == 1

\* the packets send_raw_packet is called with in one burst (1000 in the
\* scenario of the specification), scaled down
BurstSize == 3

\* the datagrams the peer sends on the substream in one behaviour
MaxDatagrams == 2

\* the sizes a received datagram may have: that of a RawPacket, or another
DatagramSizes == {"raw_packet", "other"}

\* a plausible slip: the packet is queued although the channel is full
TrySendUnbounded(chan, pkt) == [chan |-> Append(chan, pkt), res |-> "Ok"]

\* Sender::try_send: the channel and the Result; a full channel is left alone
TrySend(chan, pkt) ==
    IF Len(chan) >= ChannelCapacity
    THEN [chan |-> chan, res |-> "Full"]
    ELSE [chan |-> Append(chan, pkt), res |-> "Ok"]

\* the other components do not move
PumpFrame == UNCHANGED <<now, rbsVars, grpcVars, muxVars, havenVars, linkVars, regVars, cnVars, cpVars>>

\* the pumps of one link: the one onion_keepalive runs on the substream it
\* opened, and one on an accepted "onion_packets" substream
Pumps == {"keepalive", "accepted"}

\* the labels a substream of the peer can carry
Labels == {"n2n_control", "onion_packets", "bogus"}

\* the lines the peer writes on an "n2n_control" substream
ControlLines == {RequestLine([id |-> 1, method |-> "info"]), GarbageLine}

\* where the end of its pump leaves a substream: the keepalive goes on to
\* open another one, a spawned handler is gone
Ended(p) == IF p = "keepalive" THEN "failed" ELSE "none"

PumpInit ==
    /\ outgoing = <<>>
    /\ incoming = <<>>
    /\ urelIn = [p \in Pumps |-> <<>>]
    /\ wire = <<>>
    /\ pumpPc = [p \in Pumps |-> IF p = "keepalive" THEN "running" ELSE "none"]
    /\ pkNext = 1
    /\ dgNext = 1
    /\ loopPc = "accepting"
    /\ accLabel = "none"
    /\ ctlPc = "none"
    /\ ctlIn = <<>>

\* send_raw_packet, lines 96-98: the Result of try_send is thrown away
SendRawPacket ==
    /\ pkNext <= BurstSize
    /\ outgoing' = TrySend(outgoing, pkNext).chan
    /\ pkNext' = pkNext + 1
    /\ UNCHANGED <<incoming, urelIn, wire, pumpPc, dgNext, loopPc, accLabel, ctlPc, ctlIn>>
    /\ PumpFrame

\* recv_raw_packet, lines 101-103
RecvRawPacket ==
    /\ incoming # <<>>
    /\ incoming' = Tail(incoming)
    /\ UNCHANGED <<outgoing, urelIn, wire, pumpPc, pkNext, dgNext, loopPc, accLabel, ctlPc, ctlIn>>
    /\ PumpFrame

\* a plausible slip: every pump sees every packet, as on a broadcast channel
UpOkBroadcast(p) ==
    /\ pumpPc[p] = "running"
    /\ outgoing # <<>>
    /\ outgoing' = IF p = "keepalive" THEN outgoing ELSE Tail(outgoing)
    /\ wire' = Append(wire, Head(outgoing))
    /\ UNCHANGED <<incoming, urelIn, pumpPc, pkNext, dgNext, loopPc, accLabel, ctlPc, ctlIn>>
    /\ PumpFrame

\* up, lines 172-176: a packet is taken from the channel and sent on the
\* substream of the pump
UpOk(p) ==
    /\ pumpPc[p] = "running"
    /\ outgoing # <<>>
    /\ outgoing' = Tail(outgoing)
    /\ wire' = Append(wire, Head(outgoing))
    /\ UNCHANGED <<incoming, urelIn, pumpPc, pkNext, dgNext, loopPc, accLabel, ctlPc, ctlIn>>
    /\ PumpFrame

\* up, lines 174-175: send_urel fails; the `?` ends the pump
UpSendFail(p) ==
    /\ pumpPc[p] = "running"
    /\ outgoing # <<>>
    /\ outgoing' = Tail(outgoing)
    /\ pumpPc' = [pumpPc EXCEPT ![p] = Ended(p)]
    /\ UNCHANGED <<incoming, urelIn, wire, pkNext, dgNext, loopPc, accLabel, ctlPc, ctlIn>>
    /\ PumpFrame

\* the peer's datagram arrives on the substream of the pump
DatagramArrives(p, size) ==
    /\ pumpPc[p] = "running"
    /\ dgNext <= MaxDatagrams
    /\ urelIn[p] = <<>>
    /\ urelIn' = [urelIn EXCEPT ![p] = <<[id |-> dgNext, size |-> size]>>]
    /\ dgNext' = dgNext + 1
    /\ UNCHANGED <<outgoing, incoming, wire, pumpPc, pkNext, loopPc, accLabel, ctlPc, ctlIn>>
    /\ PumpFrame

\* dn, lines 179-185: a datagram is received, checked for its size and handed
\* to try_send; a wrong size and an Err from try_send end the pump by `?`
Dn(p) ==
    /\ pumpPc[p] = "running"
    /\ urelIn[p] # <<>>
    /\ urelIn' = [urelIn EXCEPT ![p] = <<>>]
    /\ IF Head(urelIn[p]).size # "raw_packet"
       THEN /\ pumpPc' = [pumpPc EXCEPT ![p] = Ended(p)]
            /\ UNCHANGED incoming
       ELSE /\ incoming' = TrySend(incoming, Head(urelIn[p]).id).chan
            /\ pumpPc' = [pumpPc EXCEPT ![p] =
                            IF TrySend(incoming, Head(urelIn[p]).id).res = "Ok"
                            THEN "running" ELSE Ended(p)]
    /\ UNCHANGED <<outgoing, wire, pkNext, dgNext, loopPc, accLabel, ctlPc, ctlIn>>
    /\ PumpFrame

\* dn, line 180: recv_urel fails
DnRecvFail(p) ==
    /\ pumpPc[p] = "running"
    /\ pumpPc' = [pumpPc EXCEPT ![p] = Ended(p)]
    /\ urelIn' = [urelIn EXCEPT ![p] = <<>>]
    /\ UNCHANGED <<outgoing, incoming, wire, pkNext, dgNext, loopPc, accLabel, ctlPc, ctlIn>>
    /\ PumpFrame

\* onion_keepalive, lines 160-163, under Immortal::respawn: after the pump
\* returned an error a new "onion_packets" substream is opened and pumped
KeepaliveReopen ==
    /\ loopPc # "died"
    /\ pumpPc["keepalive"] = "failed"
    /\ pumpPc' = [pumpPc EXCEPT !["keepalive"] = "running"]
    /\ urelIn' = [urelIn EXCEPT !["keepalive"] = <<>>]
    /\ UNCHANGED <<outgoing, incoming, wire, pkNext, dgNext, loopPc, accLabel, ctlPc, ctlIn>>
    /\ PumpFrame

\* connection_loop, line 128: accept_conn returns a substream of the peer;
\* the model follows one handler of each kind at a time
AcceptConn(label) ==
    /\ loopPc = "accepting"
    /\ label = "n2n_control" => ctlPc # "running"
    /\ label = "onion_packets" => pumpPc["accepted"] # "running"
    /\ loopPc' = "matching"
    /\ accLabel' = label
    /\ UNCHANGED <<outgoing, incoming, urelIn, wire, pumpPc, pkNext, dgNext, ctlPc, ctlIn>>
    /\ PumpFrame

\* a plausible slip: a label that is not known ends the loop
MatchLabelStrict ==
    /\ loopPc = "matching"
    /\ loopPc' = IF accLabel = "bogus" THEN "died" ELSE "accepting"
    /\ accLabel' = "none"
    /\ ctlPc' = IF accLabel = "n2n_control" THEN "running" ELSE ctlPc
    /\ ctlIn' = IF accLabel = "n2n_control" THEN <<>> ELSE ctlIn
    /\ pumpPc' = IF accLabel = "onion_packets"
                 THEN [pumpPc EXCEPT !["accepted"] = "running"] ELSE pumpPc
    /\ urelIn' = IF accLabel = "onion_packets"
                 THEN [urelIn EXCEPT !["accepted"] = <<>>] ELSE urelIn
    /\ UNCHANGED <<outgoing, incoming, wire, pkNext, dgNext>>
    /\ PumpFrame

\* connection_loop, lines 130-151: the match on the label spawns the handler
\* of the substream, or logs a label it does not know; the loop goes round
MatchLabel ==
    /\ loopPc = "matching"
    /\ loopPc' = "accepting"
    /\ accLabel' = "none"
    /\ ctlPc' = IF accLabel = "n2n_control" THEN "running" ELSE ctlPc
    /\ ctlIn' = IF accLabel = "n2n_control" THEN <<>> ELSE ctlIn
    /\ pumpPc' = IF accLabel = "onion_packets"
                 THEN [pumpPc EXCEPT !["accepted"] = "running"] ELSE pumpPc
    /\ urelIn' = IF accLabel = "onion_packets"
                 THEN [urelIn EXCEPT !["accepted"] = <<>>] ELSE urelIn
    /\ UNCHANGED <<outgoing, incoming, wire, pkNext, dgNext>>
    /\ PumpFrame

\* the peer writes a line on the "n2n_control" substream
LineArrives(line) ==
    /\ ctlPc = "running"
    /\ ctlIn = <<>>
    /\ ctlIn' = <<line>>
    /\ UNCHANGED <<outgoing, incoming, urelIn, wire, pumpPc, pkNext, dgNext, loopPc, accLabel, ctlPc>>
    /\ PumpFrame

\* the "n2n_control" handler, lines 133-140: a line is read and parsed; a
\* request is answered on the substream, a line that is none ends the
\* handler by `?`
ControlLine ==
    /\ ctlPc = "running"
    /\ ctlIn # <<>>
    /\ ctlIn' = <<>>
    /\ ctlPc' = IF ParseRequestLine(Head(ctlIn)) = None THEN "none" ELSE "running"
    /\ UNCHANGED <<outgoing, incoming, urelIn, wire, pumpPc, pkNext, dgNext, loopPc, accLabel>>
    /\ PumpFrame

\* the "n2n_control" handler, lines 133-141: the substream ends or breaks
ControlClosed ==
    /\ ctlPc = "running"
    /\ ctlPc' = "none"
    /\ ctlIn' = <<>>
    /\ UNCHANGED <<outgoing, incoming, urelIn, wire, pumpPc, pkNext, dgNext, loopPc, accLabel>>
    /\ PumpFrame

\* connection_loop, line 128: accept_conn fails and the loop returns; the
\* keepalive and the TaskReaper are dropped with it, and their tasks
AcceptFail ==
    /\ loopPc = "accepting"
    /\ loopPc' = "died"
    /\ pumpPc' = [p \in Pumps |-> "none"]
    /\ ctlPc' = "none"
    /\ UNCHANGED <<outgoing, incoming, urelIn, wire, pkNext, dgNext, accLabel, ctlIn>>
    /\ PumpFrame

\* connect, lines 55-66: Immortal::respawn starts connection_loop again,
\* which starts a keepalive
LoopRespawn ==
    /\ loopPc = "died"
    /\ loopPc' = "accepting"
    /\ pumpPc' = [pumpPc EXCEPT !["keepalive"] = "failed"]
    /\ UNCHANGED <<outgoing, incoming, urelIn, wire, pkNext, dgNext, accLabel, ctlPc, ctlIn>>
    /\ PumpFrame

PumpNext ==
    \/ SendRawPacket
    \/ RecvRawPacket
    \/ \E p \in Pumps : UpOk(p)
    \/ \E p \in Pumps : UpSendFail(p)
    \/ \E p \in Pumps, size \in DatagramSizes : DatagramArrives(p, size)
    \/ \E p \in Pumps : Dn(p)
    \/ \E p \in Pumps : DnRecvFail(p)
    \/ KeepaliveReopen
    \/ \E label \in Labels : AcceptConn(label)
    \/ MatchLabel
    \/ \E line \in ControlLines : LineArrives(line)
    \/ ControlLine
    \/ ControlClosed
    \/ AcceptFail
    \/ LoopRespawn

(***************************************************************************)
(* Haven socket: the registration task of server mode                      *)
(***************************************************************************)

\* alloc_forward(..).timeout(Duration::from_secs(30))
ALLOC_TIMEOUT == 30

\* Timer::after(Duration::from_secs(3)) after an error or a timeout
RETRY_SLEEP == 3

\* dht_insert(..).timeout(Duration::from_secs(30))
PUBLISH_TIMEOUT == 30

\* Timer::after(Duration::from_secs(5)) after the publication
REANNOUNCE_SLEEP == 5

\* what R answers to alloc_forward
AllocResults == {"Ok", "Err"}

\* HavenLocator::new(registration_isk, onion_pk, rob)
HavenLocatorNew(identity, onion_pk, rob) ==
    [identity |-> identity, onion_pk |-> onion_pk, rendezvous |-> rob]

\* the locator of the task: its identity, the onion key made at its start, R
RegLocator == HavenLocatorNew("isk", "onion_pk", "R")

\* a plausible slip: every arm of the match publishes
AfterAllocAlwaysPublish(res) == "publish"

\* the match on alloc_forward(..).timeout(..): Some(Err) and None sleep 3 s
\* and go round, anything else publishes
AfterAlloc(res) ==
    CASE res = Some("Err") -> "sleep3"
      [] res = None -> "sleep3"
      [] OTHER -> "publish"

\* how long the task stays where it is, at most
RegLimit(pc) ==
    CASE pc = "alloc" -> ALLOC_TIMEOUT
      [] pc = "sleep3" -> RETRY_SLEEP
      [] pc = "publish" -> PUBLISH_TIMEOUT
      [] pc = "sleep5" -> REANNOUNCE_SLEEP

\* the other components do not move
RegFrame ==
    UNCHANGED <<now, rbsVars, grpcVars, muxVars, havenVars, linkVars, pumpVars,
                cnVars, cpVars>>

\* the task is spawned and calls alloc_forward
RegInit ==
    /\ regPc = "alloc"
    /\ regElapsed = 0
    /\ allocReply = None
    /\ regLast = None
    /\ dht = {}

\* a second passes
RegTick ==
    /\ regElapsed < RegLimit(regPc)
    /\ regElapsed' = regElapsed + 1
    /\ UNCHANGED <<regPc, allocReply, regLast, dht>>
    /\ RegFrame

\* R answers the alloc_forward that is under way
RAnswers(res) ==
    /\ regPc = "alloc"
    /\ allocReply = None
    /\ allocReply' = Some(res)
    /\ UNCHANGED <<regPc, regElapsed, regLast, dht>>
    /\ RegFrame

\* alloc_forward returns what R answered: Some(Ok) or Some(Err)
AllocReturn ==
    /\ regPc = "alloc"
    /\ allocReply # None
    /\ regPc' = AfterAlloc(Some(allocReply[1]))
    /\ regLast' = Some(allocReply[1])
    /\ regElapsed' = 0
    /\ allocReply' = None
    /\ UNCHANGED dht
    /\ RegFrame

\* the 30 s are over before R answered: None
AllocTimeout ==
    /\ regPc = "alloc"
    /\ allocReply = None
    /\ regElapsed = ALLOC_TIMEOUT
    /\ regPc' = AfterAlloc(None)
    /\ regLast' = None
    /\ regElapsed' = 0
    /\ UNCHANGED <<allocReply, dht>>
    /\ RegFrame

\* the 3 s are over: the loop goes round
Sleep3Done ==
    /\ regPc = "sleep3"
    /\ regElapsed = RETRY_SLEEP
    /\ regPc' = "alloc"
    /\ regElapsed' = 0
    /\ UNCHANGED <<allocReply, regLast, dht>>
    /\ RegFrame

\* dht_insert returns: the DHT holds the locator
PublishDone ==
    /\ regPc = "publish"
    /\ dht' = dht \cup {RegLocator}
    /\ regPc' = "sleep5"
    /\ regElapsed' = 0
    /\ UNCHANGED <<allocReply, regLast>>
    /\ RegFrame

\* dht_insert has not returned after 30 s and is given up
PublishTimeout ==
    /\ regPc = "publish"
    /\ regElapsed = PUBLISH_TIMEOUT
    /\ regPc' = "sleep5"
    /\ regElapsed' = 0
    /\ UNCHANGED <<allocReply, regLast, dht>>
    /\ RegFrame

\* the 5 s are over: the loop goes round
Sleep5Done ==
    /\ regPc = "sleep5"
    /\ regElapsed = REANNOUNCE_SLEEP
    /\ regPc' = "alloc"
    /\ regElapsed' = 0
    /\ UNCHANGED <<allocReply, regLast, dht>>
    /\ RegFrame

RegNext ==
    \/ RegTick
    \/ \E res \in AllocResults : RAnswers(res)
    \/ AllocReturn
    \/ AllocTimeout
    \/ Sleep3Done
    \/ PublishDone
    \/ PublishTimeout
    \/ Sleep5Done

(***************************************************************************)
(* Link connection: connect                                                *)
(***************************************************************************)

\* identity public keys, and public keys of multiplexes
IdPks == {"idA", "idB", "idC"}

MuxPks == {"muxP", "muxQ", "muxR"}

\* what a peer can answer to authenticate: an identity key and a signature
\* by some identity over some multiplex key
AuthResponses ==
    [full_pk : IdPks, signature : {Sign(by, over) : by \in IdPks, over \in MuxPks}]

\* AuthResponse::verify: the signature is full_pk's over the multiplex key
\* this side sees for the peer
AuthVerify(resp, mux_pk) == Verifies(resp.signature, resp.full_pk, mux_pk)

CnNoResult == [kind |-> "none", why |-> "", remote_idpk |-> "nobody"]

CnErr(why) == [kind |-> "Err", why |-> why, remote_idpk |-> "nobody"]

\* the other components do not move
ConnectFrame ==
    UNCHANGED <<now, rbsVars, grpcVars, muxVars, havenVars, linkVars, pumpVars,
                regVars, cpVars>>

ConnectInit ==
    /\ cnPc = "idle"
    /\ cnTask = FALSE
    /\ cnPeerPk = None
    /\ cnResp = None
    /\ cnResult = CnNoResult

\* lines 50-70: the multiplex is made of the pipe, the connection loop is
\* started and authenticate is called
Connect ==
    /\ cnPc \in {"idle", "done"}
    /\ cnPc' = "authenticate"
    /\ cnTask' = TRUE
    /\ cnPeerPk' = None
    /\ cnResp' = None
    /\ cnResult' = CnNoResult
    /\ ConnectFrame

\* lines 69-72: the peer answers authenticate
AuthenticateOk(resp) ==
    /\ cnPc = "authenticate"
    /\ cnResp' = Some(resp)
    /\ cnPc' = "verify"
    /\ UNCHANGED <<cnTask, cnPeerPk, cnResult>>
    /\ ConnectFrame

\* lines 69-72: authenticate fails; the `?` returns and _task is dropped
AuthenticateFail ==
    /\ cnPc = "authenticate"
    /\ cnResult' = CnErr("did not respond to authenticate")
    /\ cnTask' = FALSE
    /\ cnPc' = "done"
    /\ UNCHANGED <<cnPeerPk, cnResp>>
    /\ ConnectFrame

\* a plausible slip: the result of verify is thrown away
ConnectVerifyLax(peer_pk) ==
    /\ cnPc = "verify"
    /\ cnPeerPk' = peer_pk
    /\ cnResult' = IF peer_pk = None THEN CnErr("could not obtain peer_pk")
                  ELSE [kind |-> "Ok", why |-> "", remote_idpk |-> cnResp[1].full_pk]
    /\ cnTask' = (peer_pk # None)
    /\ cnPc' = "done"
    /\ UNCHANGED cnResp
    /\ ConnectFrame

\* lines 73-82: peer_pk is asked of the multiplex and the response verified
\* against it; each failure returns by `?` and drops _task, else the
\* LinkConnection is returned with the response's full_pk and _task in it
ConnectVerify(peer_pk) ==
    /\ cnPc = "verify"
    /\ cnPeerPk' = peer_pk
    /\ cnResult' =
         IF peer_pk = None THEN CnErr("could not obtain peer_pk")
         ELSE IF ~AuthVerify(cnResp[1], peer_pk[1])
              THEN CnErr("did not authenticated correctly")
              ELSE [kind |-> "Ok", why |-> "", remote_idpk |-> cnResp[1].full_pk]
    /\ cnTask' = (peer_pk # None /\ AuthVerify(cnResp[1], peer_pk[1]))
    /\ cnPc' = "done"
    /\ UNCHANGED cnResp
    /\ ConnectFrame

ConnectNext ==
    \/ Connect
    \/ \E resp \in AuthResponses : AuthenticateOk(resp)
    \/ AuthenticateFail
    \/ \E peer_pk \in {None} \cup {Some(k) : k \in MuxPks} : ConnectVerify(peer_pk)

(***************************************************************************)
(* Control protocol: the socket map                                        *)
(***************************************************************************)

\* the sockets bound in one behaviour
MaxBinds == 2

\* the socket ids callers supply
SocketIds == {"S", "T"}

\* the tasks that call the control protocol concurrently
Clients == 1 .. 2

\* the shards of the DashMap two ids can hash to
Shards == 1 .. 2

\* self.sockets.get(&id)
SocketsGet(m, id) == IF m[id] = 0 THEN None ELSE Some(m[id])

\* a plausible slip: a bound id keeps its first socket
SocketsInsertIfAbsent(m, id, skt) == IF m[id] = 0 THEN [m EXCEPT ![id] = skt] ELSE m

\* self.sockets.insert(id, socket): the socket of a bound id is replaced
SocketsInsert(m, id, skt) == [m EXCEPT ![id] = skt]

\* the clients that hold a Ref into the shard of id, which read-locks it
RefHolders(id) ==
    {c \in Clients : cpPc[c] \in {"send_wait", "recv_wait"}
                     /\ shardOf[cpId[c]] = shardOf[id]}

CpNoResult == [kind |-> "none", skt |-> 0]

NoSocket == [kind |-> "NoSocket", skt |-> 0]

\* the other components do not move
CpFrame ==
    UNCHANGED <<now, rbsVars, grpcVars, muxVars, havenVars, linkVars, pumpVars,
                regVars, cnVars>>

\* the map is empty; whether two ids share a shard depends on their hashes
CpInit ==
    /\ sockets = [id \in SocketIds |-> 0]
    /\ shardOf \in [SocketIds -> Shards]
    /\ shardOf["S"] = 1
    /\ sktNext = 0
    /\ cpPc = [c \in Clients |-> "idle"]
    /\ cpId = [c \in Clients |-> "S"]
    /\ cpSkt = [c \in Clients |-> 0]
    /\ cpRes = [c \in Clients |-> CpNoResult]
    /\ sentBy = {}

\* bind_n2r, lines 54-57, and bind_haven, lines 68-71: the socket is created
Bind(c, id, kind) ==
    /\ cpPc[c] = "idle"
    /\ sktNext < MaxBinds
    /\ sktNext' = sktNext + 1
    /\ cpPc' = [cpPc EXCEPT ![c] = "bind_insert"]
    /\ cpId' = [cpId EXCEPT ![c] = id]
    /\ cpSkt' = [cpSkt EXCEPT ![c] = sktNext + 1]
    /\ cpRes' = [cpRes EXCEPT ![c] = CpNoResult]
    /\ UNCHANGED <<sockets, shardOf, sentBy>>
    /\ CpFrame

\* a plausible slip: the insert does not wait for the readers of the shard
BindInsertUnlocked(c) ==
    /\ cpPc[c] = "bind_insert"
    /\ sockets' = SocketsInsert(sockets, cpId[c], cpSkt[c])
    /\ cpPc' = [cpPc EXCEPT ![c] = "idle"]
    /\ cpRes' = [cpRes EXCEPT ![c] = [kind |-> "Bound", skt |-> cpSkt[c]]]
    /\ cpSkt' = [cpSkt EXCEPT ![c] = 0]
    /\ UNCHANGED <<shardOf, sktNext, cpId, sentBy>>
    /\ CpFrame

\* bind_n2r, line 58, and bind_haven, line 72: insert write-locks the shard
\* of the id, which it gets once no Ref into the shard is held
BindInsert(c) ==
    /\ cpPc[c] = "bind_insert"
    /\ RefHolders(cpId[c]) = {}
    /\ sockets' = SocketsInsert(sockets, cpId[c], cpSkt[c])
    /\ cpPc' = [cpPc EXCEPT ![c] = "idle"]
    /\ cpRes' = [cpRes EXCEPT ![c] = [kind |-> "Bound", skt |-> cpSkt[c]]]
    /\ cpSkt' = [cpSkt EXCEPT ![c] = 0]
    /\ UNCHANGED <<shardOf, sktNext, cpId, sentBy>>
    /\ CpFrame

\* skt_info, lines 75-81
SktInfo(c, id) ==
    /\ cpPc[c] = "idle"
    /\ cpId' = [cpId EXCEPT ![c] = id]
    /\ cpRes' = [cpRes EXCEPT ![c] =
                   IF SocketsGet(sockets, id) = None THEN NoSocket
                   ELSE [kind |-> "Endpoint", skt |-> SocketsGet(sockets, id)[1]]]
    /\ UNCHANGED <<sockets, shardOf, sktNext, cpPc, cpSkt, sentBy>>
    /\ CpFrame

\* send_message, line 120 and lines 123-124, recv_message, line 129 and
\* lines 132-133: get finds the socket and the call goes on to await on it,
\* the Ref alive, or finds none and returns NoSocket
GetSocket(c, id, op) ==
    /\ cpPc[c] = "idle"
    /\ cpId' = [cpId EXCEPT ![c] = id]
    /\ IF SocketsGet(sockets, id) = None
       THEN /\ cpRes' = [cpRes EXCEPT ![c] = NoSocket]
            /\ UNCHANGED <<cpPc, cpSkt>>
       ELSE /\ cpRes' = [cpRes EXCEPT ![c] = CpNoResult]
            /\ cpPc' = [cpPc EXCEPT ![c] = op]
            /\ cpSkt' = [cpSkt EXCEPT ![c] = SocketsGet(sockets, id)[1]]
    /\ UNCHANGED <<sockets, shardOf, sktNext, sentBy>>
    /\ CpFrame

\* send_message, lines 121-122: send_to returns; the Ref is dropped
SendDone(c, ok) ==
    /\ cpPc[c] = "send_wait"
    /\ sentBy' = IF ok THEN sentBy \cup {cpSkt[c]} ELSE sentBy
    /\ cpRes' = [cpRes EXCEPT ![c] =
                   [kind |-> IF ok THEN "Sent" ELSE "SendError", skt |-> cpSkt[c]]]
    /\ cpPc' = [cpPc EXCEPT ![c] = "idle"]
    /\ cpSkt' = [cpSkt EXCEPT ![c] = 0]
    /\ UNCHANGED <<sockets, shardOf, sktNext, cpId>>
    /\ CpFrame

\* recv_message, lines 130-131: a datagram arrives at the socket, or
\* recv_from fails; the Ref is dropped
RecvDone(c, ok) ==
    /\ cpPc[c] = "recv_wait"
    /\ cpRes' = [cpRes EXCEPT ![c] =
                   [kind |-> IF ok THEN "Received" ELSE "RecvError", skt |-> cpSkt[c]]]
    /\ cpPc' = [cpPc EXCEPT ![c] = "idle"]
    /\ cpSkt' = [cpSkt EXCEPT ![c] = 0]
    /\ UNCHANGED <<sockets, shardOf, sktNext, cpId, sentBy>>
    /\ CpFrame

CpNext ==
    \/ \E c \in Clients, id \in SocketIds, kind \in {"n2r", "haven"} : Bind(c, id, kind)
    \/ \E c \in Clients : BindInsert(c)
    \/ \E c \in Clients, id \in SocketIds : SktInfo(c, id)
    \/ \E c \in Clients, id \in SocketIds, op \in {"send_wait", "recv_wait"} :
           GetSocket(c, id, op)
    \/ \E c \in Clients, ok \in BOOLEAN : SendDone(c, ok)
    \/ \E c \in Clients, ok \in BOOLEAN : RecvDone(c, ok)

(***************************************************************************)
(* Specifications                                                          *)
(***************************************************************************)

Init ==
    /\ now = 0
    /\ RbsInit
    /\ GrpcInit
    /\ MuxInit
    /\ HavenInit
    /\ LinkInit
    /\ PumpInit
    /\ RegInit
    /\ ConnectInit
    /\ CpInit

SpecRbs == Init /\ [][RbsNext]_vars

SpecGrpc == Init /\ [][GrpcNext]_vars

SpecMux == Init /\ [][MuxNext]_vars

SpecMuxFair == Init /\ [][MuxNextOk]_vars /\ MuxFairness

\* the immortal respawns recv_task as soon as it has returned
SpecHaven == Init /\ [][HavenNext]_vars /\ WF_vars(Respawn)

SpecLink == Init /\ [][LinkNext]_vars

SpecPump == Init /\ [][PumpNext]_vars

SpecConnect == Init /\ [][ConnectNext]_vars

SpecControl == Init /\ [][CpNext]_vars

\* the executor runs the registration task whenever it can go on, and the
\* timers fire; when and what R answers is left open
SpecReg ==
    /\ Init
    /\ [][RegNext]_vars
    /\ WF_vars(RegTick)
    /\ WF_vars(AllocReturn)
    /\ WF_vars(AllocTimeout)
    /\ WF_vars(Sleep3Done)
    /\ WF_vars(PublishTimeout)
    /\ WF_vars(Sleep5Done)

(***************************************************************************)
(* Claims                                                                  *)
(***************************************************************************)

\* the waits the claim states for the 1st .. 4th send of an unanswered call
ClaimedWait == <<4, 8, 16, 32>>

\* the waits 2^(retries+1) gives with retries = 0, 1, 2, 3
DoublingWait == <<2, 4, 8, 16>>

InFlight(c) == callPc[c] \in {"write", "read"}

PooledConns == {pool[i].conn : i \in 1 .. Len(pool)}

\* C1: of two concurrent call_raw invocations with a peer that answers every
\* request line in order, no two hold the same substream at once (nor one
\* that is still in the pool), each that returns Ok returns the response to
\* its own request, and each call that was started completes with Ok.
C1_NoCrossTalk ==
    /\ [](\A c1, c2 \in Callers :
            c1 # c2 /\ InFlight(c1) /\ InFlight(c2) => callConn[c1] # callConn[c2])
    /\ [](\A c \in Callers : InFlight(c) => callConn[c] \notin PooledConns)
    /\ [](\A c \in Callers :
            callPc[c] = "idle" /\ callRes[c].kind = "ok" =>
                callRes[c].resp = Some(RespondRaw(callReq[c])))
    /\ \A c \in Callers :
            (callPc[c] # "idle") ~> (callPc[c] = "idle" /\ callRes[c].kind = "ok")

\* both calls overlapped (no time passed, yet two substreams were opened) and
\* both have returned Ok
C1_Witness ==
    /\ now = 0
    /\ nextConn = 3
    /\ \A c \in Callers : callPc[c] = "idle" /\ callRes[c].kind = "ok"
    /\ {callReq[c].id : c \in Callers} = {1, 2}

\* C2: a call_raw that fails while writing, reading or parsing leaves the pool
\* as it was: its connection is not put back.
C2_FailedConnNotPooled ==
    [][\A c \in Callers :
          InFlight(c) /\ callPc'[c] = "idle" /\ callRes'[c].kind = "err" =>
              pool' = pool]_vars

\* C3: get_conn hands out a pooled connection only if its entry is younger
\* than POOL_TIMEOUT; a popped entry that is POOL_TIMEOUT old or older is
\* dropped, and a dropped substream is never held by a call nor pooled again;
\* a new substream, labelled "n2n_control", is opened only once the pool has
\* been emptied of entries.
C3_PoolTimeout ==
    /\ [][\A c \in Callers :
            callPc[c] = "get_conn" /\ callPc'[c] = "write" =>
                /\ pool # <<>>
                /\ callConn'[c] = Head(pool).conn
                /\ now - Head(pool).time < POOL_TIMEOUT]_vars
    /\ [][Len(pool') < Len(pool) /\ now - Head(pool).time >= POOL_TIMEOUT =>
                /\ stream'[Head(pool).conn].state = "dropped"
                /\ \A c \in Callers : callConn'[c] # Head(pool).conn]_vars
    /\ [](\A id \in StreamIds :
            stream[id].state = "dropped" =>
                /\ id \notin PooledConns
                /\ \A c \in Callers : callConn[c] # id)
    /\ [][\A c \in Callers :
            /\ (callPc[c] = "get_conn" /\ callPc'[c] = "open" => pool = <<>>)
            /\ (callPc[c] = "open" /\ callPc'[c] = "write" =>
                    /\ callConn'[c] \notin StreamIds
                    /\ stream'[callConn'[c]] = NewStream("n2n_control"))]_vars

\* an entry was dropped for its age and a later call holds a newer substream
C3_Witness ==
    /\ stream # <<>>
    /\ stream[1].state = "dropped"
    /\ \E c \in Callers : InFlight(c) /\ callConn[c] = 2

\* C10: every deque of the store holds at most its capacity of reply blocks,
\* and every deque the store creates has the store's fixed capacity.
C10_DequeBounded ==
    \A i \in 1 .. Len(items) :
        /\ Len(items[i].val.deque) <= items[i].val.capacity
        /\ items[i].val.capacity = DequeCapacity

\* capacity + 1 blocks were inserted under one fingerprint: the deque is full
\* and has lost its oldest block
C10_Witness ==
    /\ rbNext = DequeCapacity + 2
    /\ Len(items) = 1
    /\ rbGot.fp = None
    /\ Len(items[1].val.deque) = DequeCapacity
    /\ Head(items[1].val.deque) = 2

(***************************************************************************)
(* Haven socket: the recv dispatcher and the session cache                 *)
(***************************************************************************)

\* recv_task takes the datagram at the head of the n2r socket, a ClientHs
TakesClientHs ==
    /\ RecvReady
    /\ Head(inbox).msg.kind = "ClientHs"
    /\ inbox' = Tail(inbox)

\* the cache maps the endpoint to a session created in this step from hs
InstallsNewSession(ep, hs) ==
    /\ Live(sessions', ep)
    /\ sessions'[ep].id \notin SessionsInUse(ep)
    /\ sessions'[ep].hs = hs
    /\ sessions'[ep].age = 0

TakesStray ==
    /\ RecvReady
    /\ Head(inbox).msg.kind \in {"ServerHs", "Regular"}
    /\ ~Live(sessions, Head(inbox).remote)
    /\ inbox' = Tail(inbox)

\* C6: a Regular or ServerHs from an endpoint without a cached session is
\* dropped: no session is created for it, every endpoint's session stays as
\* it is, nothing is delivered to recv_from, no send_to is disturbed, and
\* the dispatcher, which returned with the error, runs again to take later
\* messages.
C6_StrayDropped ==
    /\ [][TakesStray =>
             /\ sessions' = sessions
             /\ decrypted' = decrypted
             /\ UNCHANGED <<initFlight, sendPc, sendEp, sendEnc, sendRes>>]_vars
    /\ (recvPc = "dead") ~> (recvPc = "running")

\* C6: a stray message was dropped while E2 had a session, the dispatcher
\* was started again and has a later message to take
C6_Witness ==
    /\ ~Live(sessions, "E1")
    /\ Live(sessions, "E2")
    /\ recvPc = "running"
    /\ inbox = <<[remote |-> "E1", msg |-> [kind |-> "ClientHs", hs |-> "hsA"]]>>
    /\ decrypted = <<>>
    /\ sendRes[1] = HavenOk
    /\ sendEp[1] = "E2"

\* send_to(ep) of some thread ends with the error of a failed send_outgoing
FailedSendReturns(ep) ==
    \E t \in Senders :
        /\ sendPc[t] = "evict"
        /\ sendEp[t] = ep
        /\ sendPc'[t] = "idle"
        /\ sendRes'[t].kind = "HavenEncryptionError"

\* the time_to_live of the entry of ep ends in this step
TtlExpires(ep) ==
    \E d \in HavenTickSteps :
        /\ sessions' = CacheExpire(sessions, d)
        /\ sessions[ep].age + d >= SESSION_TTL

C8_FailedSendEvicts ==
    /\ [][\A t \in Senders :
             sendPc[t] = "send_outgoing" /\ sendPc'[t] # "send_outgoing" =>
                 \/ sendPc'[t] = "evict"
                 \/ sendPc'[t] = "idle" /\ sendRes'[t] = HavenOk]_vars
    /\ [][\A t \in Senders :
             sendPc[t] = "evict" /\ sendPc'[t] # "evict" =>
                 /\ sendPc'[t] = "idle"
                 /\ sendRes'[t].kind = "HavenEncryptionError"
                 /\ ~Live(sessions', sendEp[t])
                 /\ \A e \in Endpoints \ {sendEp[t]} : sessions'[e] = sessions[e]]_vars
    /\ [][\A t \in Senders :
             sendPc[t] = "idle" /\ sendPc'[t] # "idle" /\ ~Live(sessions, sendEp'[t]) =>
                 sendPc'[t] \in {"init", "wait_init"}]_vars

\* C8: send_to(E1) failed on send_outgoing and returned; the cache holds no
\* session for E1, still holds the one of E2, and the next send_to(E1) is
\* building a new session
C8_Witness ==
    /\ sendPc[1] = "idle"
    /\ sendEp[1] = "E1"
    /\ sendRes[1] = HavenEncryptionError("send_outgoing")
    /\ ~Live(sessions, "E1")
    /\ Live(sessions, "E2")
    /\ sendPc[2] = "init"
    /\ sendEp[2] = "E1"

\* the threads inside try_get_with for the endpoint
Computing(ep) == {t \in Senders : sendPc[t] = "init" /\ sendEp[t] = ep}

Waiting(ep) == {t \in Senders : sendPc[t] = "wait_init" /\ sendEp[t] = ep}

\* C9: of the concurrent send_to calls that find no session for E one runs
\* CryptSession::new and the others wait for it; when it succeeds all of them
\* get the one session it made, which is cached; when it fails nothing is
\* cached for E, each of them returns HavenEncryptionError, and no
\* computation is left behind, so a later send_to(E) computes again.
C9_SingleComputation ==
    /\ [](\A ep \in Endpoints :
             /\ Cardinality(Computing(ep)) <= 1
             /\ Waiting(ep) # {} => Computing(ep) # {}
             /\ Computing(ep) = {} => FlightOf(initFlight, ep) = 0)
    /\ [][\A ep \in Endpoints : \A t \in Computing(ep) :
             sendPc'[t] # "init" =>
                 \/ /\ InstallsNewSession(ep, "none")
                    /\ \A u \in Waiting(ep) \cup {t} :
                          /\ sendPc'[u] = "send_outgoing"
                          /\ sendEnc'[u] = sessions'[ep].id
                 \/ /\ sessions' = sessions
                    /\ \A u \in Waiting(ep) \cup {t} :
                          /\ sendPc'[u] = "idle"
                          /\ sendRes'[u].kind = "HavenEncryptionError"]_vars

\* C9: two send_to(E1) found no session; one computes it, the other waits
C9_Witness ==
    /\ sendPc[1] = "init"
    /\ sendPc[2] = "wait_init"
    /\ sendEp[1] = "E1"
    /\ sendEp[2] = "E1"
    /\ ~Live(sessions, "E1")

(***************************************************************************)
(* Reply-block store: order, single use, eviction of fingerprints          *)
(***************************************************************************)

\* the blocks the store holds for a fingerprint, oldest first
BlocksOf(c, fp) == IF LruIndex(c, fp) = 0 THEN <<>> ELSE c[LruIndex(c, fp)].val.deque

\* the last n elements of a sequence
LastN(s, n) == IF Len(s) <= n THEN s ELSE SubSeq(s, Len(s) - n + 1, Len(s))

\* an insert or insert_batch of at least one block was done in this step
InsertStep == rbNext' > rbNext

\* the blocks that step inserted, in the order of insertion
InsertedBlocks == [i \in 1 .. (rbNext' - rbNext) |-> rbNext + i - 1]

\* a get was done in this step
GetStep == rbNext' = rbNext /\ (items' # items \/ rbGot' # rbGot)

\* C11: after blocks were inserted for a fingerprint its deque holds the last
\* DequeCapacity of the blocks it held plus the inserted ones, in insertion
\* order, and every get returns the latest block still held and takes only
\* that block away; so successive gets return the last min(k, capacity)
\* inserted blocks, last inserted first, and never an older one.
C11_GetIsLifo ==
    /\ [][InsertStep =>
             BlocksOf(items', items'[1].key) =
                 LastN(BlocksOf(items, items'[1].key) \o InsertedBlocks, DequeCapacity)]_vars
    /\ [][GetStep /\ BlocksOf(items, rbGot'.fp[1]) # <<>> =>
             /\ rbGot'.out = Some(Last(BlocksOf(items, rbGot'.fp[1])))
             /\ BlocksOf(items', rbGot'.fp[1]) = Front(BlocksOf(items, rbGot'.fp[1]))]_vars

\* C11: four blocks were inserted for fingerprint 1, one more than the deque
\* holds; two gets returned block 4 and then block 3, and block 2 is left
C11_Witness ==
    /\ rbNext = 5
    /\ Len(items) = 1
    /\ items[1].key = 1
    /\ items[1].val.deque = <<2>>
    /\ rbGot = [fp |-> Some(1), out |-> Some(3)]

BlockHeld(c, b) ==
    \E i \in 1 .. Len(c) : \E j \in 1 .. Len(c[i].val.deque) : c[i].val.deque[j] = b

\* C12: get returns None for a fingerprint the store has no deque for and
\* for one whose deque is empty; a block is held at most once, and the block
\* a get returns is no longer in the store, so no later get returns it.
C12_GetSingleUse ==
    /\ [](\A i1, i2 \in 1 .. Len(items) :
            \A j1 \in 1 .. Len(items[i1].val.deque), j2 \in 1 .. Len(items[i2].val.deque) :
                items[i1].val.deque[j1] = items[i2].val.deque[j2] => i1 = i2 /\ j1 = j2)
    /\ [][GetStep =>
             /\ BlocksOf(items, rbGot'.fp[1]) = <<>> => rbGot'.out = None
             /\ rbGot'.out # None => ~BlockHeld(items', rbGot'.out[1])]_vars

\* C12: the one block inserted for fingerprint 1 was consumed by a get, and
\* the get after it returned None
C12_Witness ==
    /\ rbNext = 2
    /\ Len(items) = 1
    /\ items[1].key = 1
    /\ items[1].val.deque = <<>>
    /\ rbGot = [fp |-> Some(1), out |-> None]

\* the fingerprints the store holds, the most recently accessed first
KeysOf(c) == [i \in 1 .. Len(c) |-> c[i].key]

\* the sequence without its element k
Without(c, k) == IF LruIndex(c, k) = 0 THEN c ELSE LruRemoveAt(c, LruIndex(c, k))

\* C13: the store never holds more than StoreSize fingerprints, each once;
\* an insert or get on a fingerprint makes it the most recently accessed and
\* keeps the order of the others; an insert under an absent fingerprint into
\* a full store evicts exactly the least recently accessed fingerprint with
\* its blocks, and every other fingerprint's deque stays as it was.
C13_LruEviction ==
    /\ [](/\ Len(items) <= StoreSize
          /\ \A i, j \in 1 .. Len(items) : items[i].key = items[j].key => i = j)
    /\ [][InsertStep =>
             LET fp == items'[1].key
             IN  /\ Tail(items') =
                       IF LruIndex(items, fp) = 0 /\ Len(items) = StoreSize
                       THEN Front(items)
                       ELSE Without(items, fp)]_vars
    /\ [][GetStep =>
             LET fp == rbGot'.fp[1]
             IN  IF LruIndex(items, fp) = 0
                 THEN items' = items
                 ELSE items'[1].key = fp /\ Tail(items') = Without(items, fp)]_vars

\* C13: fingerprints 1 and 2 were inserted, a get accessed 1, and the insert
\* under 3 evicted 2, the least recently accessed, not 1, the oldest
C13_Witness ==
    /\ rbNext = 4
    /\ KeysOf(items) = <<3, 1>>
    /\ items[1].val.deque = <<3>>
    /\ items[2].val.deque = <<>>
    /\ rbGot = [fp |-> Some(1), out |-> Some(1)]

(***************************************************************************)
(* Link protocol service                                                   *)
(***************************************************************************)

\* sign_adjacency is served in this step
SignStep == lpCall = NoCall /\ lpCall'.op = "sign_adjacency"

\* C14: sign_adjacency(d) returns Some only if d.left < d.right, d.right is
\* this node's fingerprint and d.left is in the neighbor table; when one of
\* these fails it returns None; whenever it returns None the Relay Graph is
\* unchanged; when it returns Some, the descriptor returned is d with
\* right_sig set to this node's signature over to_sign() and it has been
\* inserted into the Relay Graph.
C14_SignAdjacency ==
    [][SignStep =>
          LET d == lpCall'.arg
              ret == lpCall'.ret
              checks == /\ FpLess(d.left, d.right)
                        /\ d.right = MyFingerprint
                        /\ d.left \in neighTable
          IN  /\ ret # None => checks
              /\ ~checks => ret = None
              /\ ret = None => rgAdjacencies' = rgAdjacencies
              /\ ret # None =>
                    /\ ret[1] = [d EXCEPT !.right_sig = Sign(MyFingerprint, ToSign(d))]
                    /\ ret[1] \notin rgAdjacencies
                    /\ rgAdjacencies' = rgAdjacencies \cup {ret[1]}
              /\ UNCHANGED <<rgIdentities, neighTable>>]_vars

\* C14: the relay fpA, a neighbor to the left of this node, asked for its
\* adjacency to be signed and got the completed descriptor, now in the graph
C14_Witness ==
    /\ lpCall.op = "sign_adjacency"
    /\ lpCall.arg.left = "fpA"
    /\ lpCall.ret # None
    /\ rgIdentities["fpA"] = "relay"
    /\ lpCall.ret[1] \in rgAdjacencies
    /\ "fpA" \in neighTable

\* C15: sign_adjacency for a descriptor whose left side is a client (known to
\* the graph with is_relay = false) returns None and leaves the graph as it
\* is, also when left < right and the client is in the neighbor table.
C15_ClientNeverSigned ==
    [][SignStep /\ Identity(rgIdentities, lpCall'.arg.left) = "client" =>
          /\ lpCall'.ret = None
          /\ rgAdjacencies' = rgAdjacencies]_vars

\* adjacencies has been served and its result is in lpCall.ret
AdjacenciesServed == lpCall.op = "adjacencies"

\* C16: every adjacency that adjacencies(fps) returns has a left and a right
\* fingerprint that the graph knows as relays.
C16_OnlyRelayEdges ==
    AdjacenciesServed =>
        \A i \in 1 .. Len(lpCall.ret) :
            /\ Identity(rgIdentities, lpCall.ret[i].left) = "relay"
            /\ Identity(rgIdentities, lpCall.ret[i].right) = "relay"

\* C16: fpA has an edge to this relay and one to the client fpC; the result
\* for [fpA] is the first edge only
C16_Witness ==
    /\ AdjacenciesServed
    /\ lpCall.arg = <<"fpA">>
    /\ rgIdentities["fpA"] = "relay"
    /\ rgIdentities["fpC"] = "client"
    /\ SignedDescriptor("fpA", "fpC") \in rgAdjacencies
    /\ lpCall.ret = <<SignedDescriptor("fpA", "fpB")>>

\* C17: the result of adjacencies(fps) holds each descriptor at most once.
C17_NoDuplicates ==
    AdjacenciesServed =>
        \A i, j \in 1 .. Len(lpCall.ret) : lpCall.ret[i] = lpCall.ret[j] => i = j

(***************************************************************************)
(* Link connection: the packet pump and the bounded channels               *)
(***************************************************************************)

\* dn of pump p takes a datagram of the size of a RawPacket while the
\* incoming channel is full
DnOnFullChannel(p) ==
    /\ pumpPc[p] = "running"
    /\ urelIn[p] # <<>>
    /\ urelIn'[p] = <<>>
    /\ Head(urelIn[p]).size = "raw_packet"
    /\ Len(incoming) = ChannelCapacity

\* C18: a correctly sized datagram that arrives while the incoming channel
\* is full is dropped and nothing else happens: the channel is unchanged and
\* the pump keeps running on the same substream.
C18_FullIncomingDropsOnly ==
    [][\A p \in Pumps :
          DnOnFullChannel(p) => incoming' = incoming /\ pumpPc'[p] = "running"]_vars

\* a send_raw_packet was done in this step
SendRawPacketStep == pkNext' = pkNext + 1

Leaves(pc) == regPc = pc /\ (regPc' # pc \/ regElapsed' < regElapsed)

\* the task begins to publish: dht_insert is called with the locator
Publishes == regPc' = "publish" /\ (regPc # "publish" \/ regElapsed' < regElapsed)

\* C20: the registration task never ends; it publishes the locator only when
\* the alloc_forward of the same iteration returned Ok; after an error or
\* the 30 s timeout of alloc_forward it sleeps 3 s and calls alloc_forward
\* again without publishing; a publication takes at most 30 s and is
\* followed by a sleep of 5 s and the next alloc_forward; the DHT only ever
\* holds the locator of this identity at R; and when R's answer Ok is
\* there, the locator is published.
C20_RegistrationLoop ==
    /\ []<>(regPc = "alloc" /\ regElapsed = 0)
    /\ [][Publishes => regPc = "alloc" /\ allocReply = Some("Ok")]_vars
    /\ [][dht' # dht => regPc = "publish" /\ regLast = Some("Ok")]_vars
    /\ [][Leaves("alloc") /\ allocReply # Some("Ok") =>
             /\ allocReply = Some("Err") \/ regElapsed = ALLOC_TIMEOUT
             /\ regPc' = "sleep3"
             /\ dht' = dht]_vars
    /\ [][Leaves("sleep3") =>
             regElapsed = RETRY_SLEEP /\ regPc' = "alloc" /\ dht' = dht]_vars
    /\ [](regPc = "alloc" => regElapsed <= ALLOC_TIMEOUT)
    /\ [](regPc = "publish" => regElapsed <= PUBLISH_TIMEOUT)
    /\ [][Leaves("publish") => regPc' = "sleep5"]_vars
    /\ [][Leaves("sleep5") =>
             regElapsed = REANNOUNCE_SLEEP /\ regPc' = "alloc"]_vars
    /\ [](dht \subseteq {HavenLocatorNew("isk", "onion_pk", "R")})
    /\ ((regPc = "alloc" /\ allocReply = Some("Ok")) ~> (regPc = "publish"))

\* C20: after a publication that followed an answer Ok the DHT holds the
\* locator and the 5 s before the next alloc_forward are over
C20_Witness ==
    /\ regPc = "sleep5"
    /\ regElapsed = REANNOUNCE_SLEEP
    /\ regLast = Some("Ok")
    /\ dht = {RegLocator}

(***************************************************************************)
(* Reply-block store: drained fingerprints                                 *)
(***************************************************************************)

\* the set of fingerprints the store has a deque for
KeySet(c) == {c[i].key : i \in 1 .. Len(c)}

\* C29: a get leaves the set of fingerprints of the store as it was, also
\* when it drains the deque to empty or finds it empty, and makes a present
\* fingerprint the most recently used one; so a drained fingerprint keeps
\* its slot and an insert under a new fingerprint into the full store evicts
\* the least recently used fingerprint, blocks or none.
C29_GetKeepsFingerprint ==
    /\ [][GetStep =>
             /\ KeySet(items') = KeySet(items)
             /\ Len(items') = Len(items)
             /\ LruIndex(items, rbGot'.fp[1]) # 0 => items'[1].key = rbGot'.fp[1]]_vars
    /\ [][InsertStep /\ Len(items) = StoreSize
                     /\ LruIndex(items, items'[1].key) = 0 =>
             KeySet(items') = (KeySet(items) \ {Last(items).key}) \cup {items'[1].key}]_vars

\* C29: fingerprint 1 was drained by a get and promoted; the insert under 3
\* then evicted fingerprint 2 with its block 2, and the empty deque of 1 stays
C29_Witness ==
    /\ rbNext = 4
    /\ KeysOf(items) = <<3, 1>>
    /\ items[2].val.deque = <<>>
    /\ ~BlockHeld(items, 2)
    /\ rbGot = [fp |-> Some(1), out |-> Some(1)]

(***************************************************************************)
(* Global RPC transport: one socket, endless resends, the first datagram   *)
(***************************************************************************)

\* the call returns in this step
GReturns == gPc # "done" /\ gPc' = "done"

\* C24: a socket is bound only when a call begins, one for the call; every
\* datagram the call sent went out on that socket to (dest_fp,
\* GLOBAL_RPC_DOCK) and is the same serialized request; an expiry of the
\* timer adds one to retries and leads to the next send, so a waiting call
\* has sent retries + 1 times; and a call returns only with a response or
\* with an error of send_to, of recv_from or of parsing what was received,
\* never because of the number of retries: while nothing arrives and no
\* send or receive fails it does not return.
C24_OneSocketEndlessRetries ==
    /\ [][gSocket' # gSocket =>
             gPc \in {"idle", "done"} /\ gPc' = "send" /\ gSocket' = gSocket + 1]_vars
    /\ [](\A i \in 1 .. Len(gSent) :
             gSent[i] = [socket |-> gSocket, to |-> GEndpoint,
                         body |-> SerializeReq(gReq)])
    /\ [](gPc = "wait" => Len(gSent) = gRetries + 1)
    /\ [][gRetries' # gRetries /\ gPc = "wait" =>
             /\ TimerDue
             /\ gRetries' = gRetries + 1
             /\ gPc' = "send"
             /\ gSocket' = gSocket
             /\ gReq' = gReq]_vars
    /\ [][GReturns =>
             \/ gResult'.kind = "ok" /\ gInbox # <<>>
             \/ gResult'.kind = "err" /\ gResult'.why = "parse" /\ gInbox # <<>>
             \/ gResult'.kind = "err" /\ gResult'.why \in {"send", "recv"}]_vars

\* C24: nobody answered; the call has sent its request four times on its one
\* socket, the fourth timer is due and the call is still waiting
C24_Witness ==
    /\ gPc = "wait"
    /\ gSocket = 1
    /\ gRetries = 3
    /\ Len(gSent) = 4
    /\ gInbox = <<>>
    /\ now = gWhen
    /\ gResult = GNoResult

\* the waiting call takes the datagram its socket received
GTakesDatagram == gPc = "wait" /\ gInbox # <<>> /\ gInbox' # gInbox

\* C30: the first datagram the waiting call receives ends the call: when it
\* parses as a JSON-RPC response it is returned as the result, whoever sent
\* it and whatever id it carries; when it does not parse the call returns
\* an error at once, without another send and without waiting further.
C30_FirstDatagramIsResponse ==
    [][GTakesDatagram =>
          /\ gPc' = "done"
          /\ gSent' = gSent
          /\ gRetries' = gRetries
          /\ gResult' =
               IF ParseResponse(Head(gInbox).body) = None
               THEN [kind |-> "err", why |-> "parse", resp |-> None]
               ELSE [kind |-> "ok", why |-> "",
                     resp |-> Some([id |-> Head(gInbox).body.id])]]_vars

\* C30: the call returned a response whose id is not that of its request
C30_Witness ==
    /\ gPc = "done"
    /\ gResult.kind = "ok"
    /\ gResult.resp # None
    /\ gResult.resp[1].id # gReq.id
    /\ Len(gSent) = 1

(***************************************************************************)
(* Mux-backed RPC transport: what sits in the pool                         *)
(***************************************************************************)

\* no request written on the substream waits for its response, and no
\* response line on it waits to be read
Quiescent(id) == stream[id].toPeer = <<>> /\ stream[id].toClient = <<>>

\* C25: every connection in conn_pool is quiescent, whatever the
\* interleaving and also after a call was cancelled between its write and
\* its read, and a call that returns Ok returns the response to its own
\* request.
C25_PooledConnsQuiescent ==
    /\ \A i \in 1 .. Len(pool) : Quiescent(pool[i].conn)
    /\ \A c \in Callers :
           callPc[c] = "idle" /\ callRes[c].kind = "ok" =>
               callRes[c].resp = Some(RespondRaw(callReq[c]))

(***************************************************************************)
(* Haven socket: a failed send and a session installed meanwhile           *)
(***************************************************************************)

\* send_to of t removes the entry of its endpoint while the cache holds
\* another session for it than the one t sent on
EvictsOverNewSession(t) ==
    /\ sendPc[t] = "evict"
    /\ sendPc'[t] = "idle"
    /\ Live(sessions, sendEp[t])
    /\ sessions[sendEp[t]].id # sendEnc[t]

\* C26: a failing send_to(E) evicts only the session it sent on: a session
\* the recv dispatcher installed for E after the send failed and before the
\* entry is removed is still in the cache when send_to returns.
C26_EvictsOnlyOwnSession ==
    [][\A t \in Senders :
          EvictsOverNewSession(t) =>
              sessions'[sendEp[t]] = sessions[sendEp[t]]]_vars

(***************************************************************************)
(* Link connection: several pumps, and violations of the protocol          *)
(***************************************************************************)

\* C27: with the keepalive's pump and the pump of an accepted substream
\* taking from the one outgoing channel, a step transmits at most one
\* packet, the one at the head of the channel, and takes it out of the
\* channel; so no packet is transmitted twice, on one substream or on two,
\* and no transmitted packet is still in the channel for another pump.
C27_PacketSentAtMostOnce ==
    /\ [](\A i, j \in 1 .. Len(wire) : wire[i] = wire[j] => i = j)
    /\ [](\A i \in 1 .. Len(wire), j \in 1 .. Len(outgoing) : wire[i] # outgoing[j])
    /\ [][Len(wire') > Len(wire) =>
             /\ Len(wire') = Len(wire) + 1
             /\ \E p \in Pumps : pumpPc[p] = "running"
             /\ Last(wire') = Head(outgoing)
             /\ Len(outgoing') = Len(outgoing) - 1]_vars

\* C27: both pumps run, two packets were transmitted and the third of the
\* burst waits in the channel
C27_Witness ==
    /\ \A p \in Pumps : pumpPc[p] = "running"
    /\ wire = <<1, 2>>
    /\ outgoing = <<3>>

\* dn of pump p takes a datagram that has not the size of a RawPacket
WrongSizeDatagram(p) ==
    /\ pumpPc[p] = "running"
    /\ urelIn[p] # <<>>
    /\ Head(urelIn[p]).size # "raw_packet"
    /\ urelIn'[p] = <<>>

\* the handler of the "n2n_control" substream takes a line that is no request
MalformedLine ==
    /\ ctlPc = "running"
    /\ ctlIn # <<>>
    /\ ParseRequestLine(Head(ctlIn)) = None
    /\ ctlIn' = <<>>

\* connection_loop matches a label it does not know
UnknownLabel == loopPc = "matching" /\ accLabel = "bogus" /\ loopPc' # loopPc

\* C22: a datagram of the wrong size ends the pump of its substream only,
\* a malformed line ends the handler of its "n2n_control" substream only,
\* and a substream with an unknown label is dropped: in each case the
\* connection loop goes on accepting, every other handler stays as it was,
\* the channels keep their packets, and as long as the loop lives the
\* keepalive has a pump or opens the next one.
C22_ViolationIsLocal ==
    /\ [][\A p \in Pumps :
             WrongSizeDatagram(p) =>
                 /\ pumpPc' = [pumpPc EXCEPT ![p] = Ended(p)]
                 /\ \A q \in Pumps \ {p} : urelIn'[q] = urelIn[q]
                 /\ UNCHANGED <<loopPc, accLabel, ctlPc, ctlIn, outgoing, incoming, wire>>]_vars
    /\ [][MalformedLine =>
             /\ ctlPc' = "none"
             /\ UNCHANGED <<loopPc, accLabel, pumpPc, urelIn, outgoing, incoming, wire>>]_vars
    /\ [][UnknownLabel =>
             /\ loopPc' = "accepting"
             /\ UNCHANGED <<pumpPc, urelIn, ctlPc, ctlIn, outgoing, incoming, wire>>]_vars
    /\ [](loopPc # "died" => pumpPc["keepalive"] \in {"running", "failed"})

\* C22: the first datagram was of the wrong size and ended the keepalive's
\* pump; the loop accepts, the pump of the accepted substream and the
\* control handler run, and the keepalive is about to open a new substream
C22_Witness ==
    /\ loopPc = "accepting"
    /\ pumpPc = [p \in Pumps |-> IF p = "keepalive" THEN "failed" ELSE "running"]
    /\ ctlPc = "running"
    /\ dgNext = 2
    /\ incoming = <<>>
    /\ urelIn = [p \in Pumps |-> <<>>]
    /\ pkNext = 1

(***************************************************************************)
(* Link connection: connect                                                *)
(***************************************************************************)

\* C21: connect returns Ok only when the peer answered authenticate, the
\* multiplex gave the peer's public key and the response verified against
\* it; remote_idpk is then the full_pk of that response and the connection
\* loop is kept. When authenticate failed, the key was not available or
\* the response did not verify, connect returns an error, no connection is
\* made and the connection loop is released.
C21_ConnectAuthenticates ==
    /\ cnPc = "done" /\ cnResult.kind = "Ok" =>
           /\ cnResp # None
           /\ cnPeerPk # None
           /\ cnResp[1].signature = Sign(cnResp[1].full_pk, cnPeerPk[1])
           /\ cnResult.remote_idpk = cnResp[1].full_pk
           /\ cnTask
    /\ cnPc = "done" /\ (cnResp = None \/ cnPeerPk = None
                         \/ cnResp[1].signature # Sign(cnResp[1].full_pk, cnPeerPk[1])) =>
           /\ cnResult.kind = "Err"
           /\ cnResult.remote_idpk = "nobody"
           /\ ~cnTask
    /\ cnPc = "done" => cnResult.kind \in {"Ok", "Err"}
    /\ cnPc \in {"authenticate", "verify"} => cnTask /\ cnResult.kind = "none"

\* C21: the peer answered with idA's key and a signature of idB over the
\* multiplex key; connect returned an error and the loop is released
C21_Witness ==
    /\ cnPc = "done"
    /\ cnResp = Some([full_pk |-> "idA", signature |-> Sign("idB", "muxP")])
    /\ cnPeerPk = Some("muxP")
    /\ cnResult = CnErr("did not authenticated correctly")
    /\ ~cnTask

(***************************************************************************)
(* Control protocol: unknown ids, rebinding, and the Ref of a waiting call *)
(***************************************************************************)

\* client c calls skt_info, send_message or recv_message in this step
CpCalls(c) ==
    /\ cpPc[c] = "idle"
    /\ cpPc'[c] # "bind_insert"
    /\ cpPc'[c] # "idle" \/ cpRes'[c] # cpRes[c] \/ cpId'[c] # cpId[c]

\* C23: skt_info, send_message and recv_message on an id that is not bound
\* return NoSocket and leave the map, the sockets and what was sent as they
\* were; on a bound id they go to the socket the map holds for it, which is
\* the one the last completed bind under that id put there.
C23_NoSocketAndDispatch ==
    /\ [][\A c \in Clients :
             CpCalls(c) /\ sockets[cpId'[c]] = 0 =>
                 /\ cpRes'[c] = NoSocket
                 /\ cpPc'[c] = "idle"
                 /\ UNCHANGED <<sockets, sktNext, sentBy>>]_vars
    /\ [][\A c \in Clients :
             CpCalls(c) /\ sockets[cpId'[c]] # 0 =>
                 /\ cpRes'[c].kind # "NoSocket"
                 /\ IF cpPc'[c] = "idle" THEN cpRes'[c].skt = sockets[cpId'[c]]
                    ELSE cpSkt'[c] = sockets[cpId'[c]]]_vars
    /\ [][\A c \in Clients :
             cpPc[c] = "bind_insert" /\ cpPc'[c] = "idle" =>
                 /\ sockets'[cpId[c]] = cpSkt[c]
                 /\ \A id \in SocketIds \ {cpId[c]} : sockets'[id] = sockets[id]]_vars
    /\ [][sockets' # sockets =>
             \E c \in Clients : cpPc[c] = "bind_insert" /\ cpPc'[c] = "idle"]_vars
    /\ [](\A k \in sentBy : k \in 1 .. sktNext)

\* C23: recv_message on the unbound T returned NoSocket, and after S was
\* bound twice a send_message on S went out on the second socket
C23_Witness ==
    /\ sockets = [id \in SocketIds |-> IF id = "S" THEN 2 ELSE 0]
    /\ sktNext = 2
    /\ cpPc = [c \in Clients |-> "idle"]
    /\ cpId[1] = "T" /\ cpRes[1] = NoSocket
    /\ cpId[2] = "S" /\ cpRes[2] = [kind |-> "Sent", skt |-> 2]
    /\ sentBy = {2}

\* C28: a send_message or recv_message that waits holds its Ref for the
\* whole wait: the socket it waits on is the one it found, and while it
\* waits on id S no bind under S completes its insert, nor one under an id
\* of the same shard; the insert is still to be done when the wait ends.
C28_RefBlocksRebind ==
    /\ [][\A b, c \in Clients :
             /\ cpPc[b] = "bind_insert"
             /\ cpPc[c] \in {"send_wait", "recv_wait"}
             /\ shardOf[cpId[b]] = shardOf[cpId[c]]
             => sockets' = sockets /\ cpPc'[b] = "bind_insert"]_vars
    /\ [][\A c \in Clients :
             cpPc[c] \in {"send_wait", "recv_wait"} /\ cpPc'[c] = cpPc[c] =>
                 cpSkt'[c] = cpSkt[c] /\ cpId'[c] = cpId[c]]_vars

\* C28: client 1 waits in recv_message on S and client 2, rebinding S, has
\* created its socket and cannot insert it
C28_Witness ==
    /\ cpPc[1] = "recv_wait" /\ cpId[1] = "S" /\ cpSkt[1] = 1
    /\ cpPc[2] = "bind_insert" /\ cpId[2] = "S" /\ cpSkt[2] = 2
    /\ sockets["S"] = 1

=============================================================================
